---- MODULE Spec2Model ----
(***************************************************************************)
(* A model of the retrieval backend of NineToFive (src/backend):           *)
(*   - core.py       the shared LLM handle, its lock, the response cache   *)
(*   - retrieval.py  deduplicate_results, rerank_results, retrieve_context *)
(*                   and query_docs                                        *)
(*   - ingest.py     ingest_document                                       *)
(*   - app.py        handle_message and handle_generate_summary            *)
(*                                                                         *)
(* The module holds several specifications over one set of variables.      *)
(* Each specification drives one part of the program and leaves the        *)
(* variables of the other parts at their idle values:                      *)
(*   SpecRerank    rerank_results on bounded inputs                        *)
(*   SpecLLM       threads that use the shared LLM handle                  *)
(*   SpecCache     query_docs threads against ingestion threads            *)
(*   SpecRetrieve  one query_docs / retrieve_context call, shard by shard  *)
(*                                                                         *)
(* Numbers with a fractional part in the source (distances, scores) are    *)
(* integers in units of 1/10000.                                           *)
(***************************************************************************)
EXTENDS Integers, Sequences, FiniteSets, TLC

VARIABLES
    \* ---- rerank_results on its own
    rr_pc,            \* "call" before the call, "done" after it
    rr_results,       \* the argument results
    rr_top_k,         \* the argument top_k
    rr_reranker,      \* what get_reranker() and reranker.rerank() do
    rr_out,           \* the returned list
    \* ---- the shared LLM handle
    llm_lock,         \* core.llm_lock: the thread holding it, or NoThread
    llm_pc,           \* per thread: where it stands in its LLM call
    llm_site,         \* per thread: the call site it runs
    llm_left,         \* per thread: chunks the stream has still to yield
    \* ---- the response cache against ingestion
    index_version,    \* how many ingestions have written to the shards
    _response_cache,  \* core._response_cache: query -> entry or NoEntry
    q_pc,             \* per query thread: position in query_docs
    q_query,          \* per query thread: effective_query
    q_lang,           \* per query thread: language
    q_ctx,            \* per query thread: index version the context came from
    q_stale,          \* per query thread: the cached answer served was stale
    ing_pc,           \* per ingestion thread: position in ingest_document
    ingests_done,     \* index version of the last completed ingestion
    \* ---- one retrieve_context call and its caller: the inputs
    caller,           \* who calls retrieve_context
    query_complexity, \* analyze_query_complexity(effective_query)
    sections_hit,     \* keywords of sections_index.json found in the query
    matched_docs,     \* search_uploads_index(effective_query)
    store,            \* per shard: its chunks, nearest to the query first
    shard_down,       \* shards whose similarity search raises
    completion_order, \* the order in which the shards' futures complete
    \* ---- retrieval.py globals and the locals of retrieve_context
    _reranker,        \* retrieval._reranker: not loaded, or the loaded model
    r_pc,
    all_results,
    deeper_results,
    adaptive_results,
    top_results,
    skip_general_search,
    needs_deepening,
    current_k,
    search_depth_level,
    expanded_queries, \* expansion phrases not yet searched
    adaptive_queries, \* adaptive phrases not yet searched
    round,            \* the search round in progress: kind, phrase, k
    pending,          \* shards whose future has not completed
    \* ---- what the call did (history of the call)
    round_base,       \* length of the round's list when the round began
    round_returned,   \* shards that returned in this round, in order
    round_calls,      \* per shard: similarity searches run in this round
    searched,         \* a similarity search was run on some shard
    rerank_calls,     \* calls of rerank_results
    relevance_checks, \* calls of check_context_relevance
    adaptive_rounds,  \* adaptive queries searched
    shard_queries,    \* the round's shard queries: phrases and number in flight
    r_error,          \* an exception left retrieve_context
    ref,              \* the lists of the same call with every round's futures
                      \* completing in submission order
    \* ---- the caller's side
    out,              \* what query_docs returned
    answer_llm_calls, \* answer streams started on the LLM
    cache_written,    \* update_cache was called
    sorted_contexts,  \* handle_generate_summary: contexts as it ordered them
    \* ---- one call of a function of retrieval.py on its own
    fn_pc,            \* "call" before the call, "done" after it
    fn_name,          \* the function called
    fn_args,          \* its arguments
    fn_out,           \* what it returned
    \* ---- handle_message and handle_stop of one session
    active_requests,  \* app.active_requests: session id -> bool
    hm,               \* per handle_message thread: its locals and its stream
    stream_cache,     \* core._response_cache[effective_query]: (answer, sources)
    \* ---- core.get_dbs under concurrent first calls
    _db_shards,       \* core._db_shards: the list of dbs
    get_dbs_calls,    \* per calling thread: position, loop index, returned list
    \* ---- the persistent caches and cache_lock
    cache_lock,       \* core.cache_lock: the thread holding it, or Unlocked
    caches,           \* the keys of core._response_cache and core._embedding_cache
    files,            \* the keys held by CACHE_FILE and EMBEDDING_CACHE_FILE
    core_threads,     \* per thread: position and locals in core's cache functions
    pending_saves     \* threads started on save_persistent_caches, not yet running

rerankVars == <<rr_pc, rr_results, rr_top_k, rr_reranker, rr_out>>
llmVars    == <<llm_lock, llm_pc, llm_site, llm_left>>
cacheVars  == <<index_version, _response_cache, q_pc, q_query, q_lang, q_ctx,
                q_stale, ing_pc, ingests_done>>

inputVars  == <<caller, query_complexity, sections_hit, matched_docs, store,
                shard_down, completion_order>>
localVars  == <<_reranker, r_pc, all_results, deeper_results, adaptive_results, top_results,
                skip_general_search, needs_deepening, current_k,
                search_depth_level, expanded_queries, adaptive_queries, round,
                pending>>
histVars   == <<round_base, round_returned, round_calls, shard_queries, searched, rerank_calls,
                relevance_checks, adaptive_rounds, r_error>>
callerVars == <<out, answer_llm_calls, cache_written, sorted_contexts>>
retrVars   == <<inputVars, localVars, histVars, callerVars, ref>>

fnVars     == <<fn_pc, fn_name, fn_args, fn_out>>

streamVars == <<active_requests, hm, stream_cache>>

shardVars == <<_db_shards, get_dbs_calls>>
persistVars == <<cache_lock, caches, files, core_threads, pending_saves>>
coreVars == <<shardVars, persistVars>>

vars == <<rerankVars, llmVars, cacheVars, retrVars, fnVars, streamVars, coreVars>>

-----------------------------------------------------------------------------
(* Bounds of the model *)

MaxLen == 3          \* longest candidate list handed to rerank_results
MaxTopK == 2         \* largest top_k handed to rerank_results in SpecRerank
NumLlmThreads == 2   \* threads that use the LLM handle
MaxStreamChunks == 2 \* most chunks one LLM stream yields
NumQueryThreads == 2 \* concurrent query_docs calls
MaxIngests == 2      \* ingestions during one run

-----------------------------------------------------------------------------
(* Sequence helpers *)

Min(a, b) == IF a < b THEN a ELSE b
Max(a, b) == IF a > b THEN a ELSE b

\* Python's xs[:n] for n >= 0
Take(xs, n) == SubSeq(xs, 1, Min(n, Len(xs)))

Range(xs) == {xs[i] : i \in 1..Len(xs)}

SeqsUpTo(S, n) == UNION {[1..m -> S] : m \in 0..n}

-----------------------------------------------------------------------------
(* Documents and candidates                                                *)
(* A Document is [page_content, filename]; filename NoFile stands for a    *)
(* metadata dict without the 'filename' key.  A candidate is the tuple     *)
(* (doc, score) of the source; the score carries, beside its value, the    *)
(* scale of the component that produced it ("distance": a vector search or *)
(* an injected constant, lower is better; "relevance": the reranker,       *)
(* higher is better).  The code only ever reads the value.                 *)

NoFile == "<none>"

Doc(text, fname) == [page_content |-> text, filename |-> fname]
Cand(doc, val, scale) == [doc |-> doc, score |-> [val |-> val, scale |-> scale]]

\* hash(doc.page_content): the hash of the whole text.  Texts of the model
\* are told apart by their hash, as distinct chunk texts are by Python's
\* 64-bit str hash; equal texts always hash alike.
TextHash(text) == <<"hash", text>>

\* deduplicate_results that keeps the last candidate of every text
deduplicate_results_keep_last(results) ==
    LET keep == {i \in 1..Len(results) :
                    \A j \in (i + 1)..Len(results) :
                        results[j].doc.page_content # results[i].doc.page_content}
        RECURSIVE go(_, _)
        go(i, acc) == IF i > Len(results) THEN acc
                      ELSE go(i + 1, IF i \in keep THEN Append(acc, results[i]) ELSE acc)
    IN  go(1, <<>>)

\* retrieval.py deduplicate_results
deduplicate_results(results) ==
    LET RECURSIVE go(_, _, _)
        go(i, seen_contents, unique_results) ==
            IF i > Len(results) THEN unique_results
            ELSE LET content_hash == TextHash(results[i].doc.page_content)
                 IN  IF content_hash \notin seen_contents
                     THEN go(i + 1, seen_contents \cup {content_hash},
                             Append(unique_results, results[i]))
                     ELSE go(i + 1, seen_contents, unique_results)
    IN  IF results = <<>> THEN <<>> ELSE go(1, {}, <<>>)

\* list.sort(key=lambda x: x[1], reverse=True): Python's sort is stable, and
\* with reverse=True items of equal key keep their relative order.
\* An insertion sort that moves an item only past strictly smaller scores.
SortByScoreDesc(xs) ==
    LET RECURSIVE insert(_, _)
        insert(sorted, x) ==
            IF sorted = <<>> THEN <<x>>
            ELSE IF sorted[Len(sorted)].score.val >= x.score.val
                 THEN Append(sorted, x)
                 ELSE Append(insert(SubSeq(sorted, 1, Len(sorted) - 1), x),
                             sorted[Len(sorted)])
        RECURSIVE go(_, _)
        go(i, acc) == IF i > Len(xs) THEN acc ELSE go(i + 1, insert(acc, xs[i]))
    IN  go(1, <<>>)

\* Ranker.rerank(RerankRequest(query, passages)) of the flashrank package:
\* every passage comes back once, with the cross-encoder's score for
\* (query, text), ordered by that score.  reranker.score maps a text to the
\* score the model gives it for the query at hand.
FlashRank(reranker, passages) ==
    SortByScoreDesc([i \in 1..Len(passages) |->
        [id |-> passages[i].id,
         score |-> [val |-> reranker.score[passages[i].text],
                    scale |-> "relevance"]]])

\* A returned order that a sort in the wrong direction would give.
SortByScoreAsc(xs) ==
    LET s == SortByScoreDesc(xs)
    IN  [i \in 1..Len(s) |-> s[Len(s) + 1 - i]]

\* retrieval.py rerank_results with the final sort ascending and no cut.
rerank_results_unsorted(reranker, results, top_k) ==
    IF reranker.mode = "load_failed" \/ results = <<>>
    THEN Take(results, top_k)
    ELSE LET unique_docs == deduplicate_results(results)
             ranked == FlashRank(reranker,
                 [i \in 1..Len(unique_docs) |->
                     [id |-> i, text |-> unique_docs[i].doc.page_content]])
         IN  IF reranker.mode = "raises" THEN Take(results, top_k)
             ELSE SortByScoreAsc([j \in 1..Len(ranked) |->
                     [doc |-> unique_docs[ranked[j].id].doc,
                      score |-> ranked[j].score]])

\* retrieval.py rerank_results whose except branch returns the deduplicated
\* list instead of the input.
rerank_results_dedup_fallback(reranker, results, top_k) ==
    IF reranker.mode = "load_failed" \/ results = <<>>
    THEN Take(results, top_k)
    ELSE LET unique_docs == deduplicate_results(results)
             ranked == FlashRank(reranker,
                 [i \in 1..Len(unique_docs) |->
                     [id |-> i, text |-> unique_docs[i].doc.page_content]])
         IN  IF reranker.mode = "raises" THEN Take(unique_docs, top_k)
             ELSE Take(SortByScoreDesc([j \in 1..Len(ranked) |->
                     [doc |-> unique_docs[ranked[j].id].doc,
                      score |-> ranked[j].score]]), top_k)

\* retrieval.py rerank_results.  reranker.mode is what the reranker does in
\* this call: "load_failed" (get_reranker returns None), "raises"
\* (reranker.rerank throws) or "ok".
rerank_results(reranker, results, top_k) ==
    IF reranker.mode = "load_failed" \/ results = <<>>
    THEN Take(results, top_k)
    ELSE LET unique_docs == deduplicate_results(results)
             \* passages: id i is the position in unique_docs (doc_map)
             passages == [i \in 1..Len(unique_docs) |->
                             [id |-> i, text |-> unique_docs[i].doc.page_content]]
         IN  IF unique_docs = <<>> THEN <<>>
             ELSE IF reranker.mode = "raises" THEN Take(results, top_k)
             ELSE LET ranked_results == FlashRank(reranker, passages)
                      final_results ==
                          [j \in 1..Len(ranked_results) |->
                              [doc |-> unique_docs[ranked_results[j].id].doc,
                               score |-> ranked_results[j].score]]
                  IN  Take(SortByScoreDesc(final_results), top_k)

-----------------------------------------------------------------------------
(* SpecRerank: rerank_results called on every bounded input *)

RrTexts == {"a", "b"}
RrFiles == {"F", NoFile}
RrDistances == {0, 20000}
RrScores == {1000, 9000}
RerankerModes == {"ok", "load_failed", "raises"}

RrCands == {Cand(Doc(t, f), d, "distance") :
                t \in RrTexts, f \in RrFiles, d \in RrDistances}

RrIdle ==
    /\ rr_pc = "idle"
    /\ rr_results = <<>>
    /\ rr_top_k = 0
    /\ rr_reranker = [mode |-> "ok", score |-> [t \in RrTexts |-> 0]]
    /\ rr_out = <<>>

RrInit ==
    /\ rr_pc = "call"
    /\ rr_results \in SeqsUpTo(RrCands, MaxLen)
    /\ rr_top_k \in 0..MaxTopK
    /\ rr_reranker \in [mode : RerankerModes, score : [RrTexts -> RrScores]]
    /\ rr_out = <<>>

CallRerank ==
    /\ rr_pc = "call"
    /\ rr_out' = rerank_results(rr_reranker, rr_results, rr_top_k)
    /\ rr_pc' = "done"
    /\ UNCHANGED <<rr_results, rr_top_k, rr_reranker>>
    /\ UNCHANGED <<llmVars, cacheVars, retrVars, fnVars, streamVars, coreVars>>

-----------------------------------------------------------------------------
(* The shared LLM handle (core.py) and its call sites                      *)
(*   "expansion"  generate_query_expansions -> core.safe_llm_invoke        *)
(*   "answer"     query_docs / handle_message -> core.safe_llm_stream,     *)
(*                read chunk by chunk by handle_message's loop             *)
(*   "opener"     kira_processor.generate_opener -> core.safe_llm_stream,  *)
(*                read to the end at once                                  *)
(*   "summary"    handle_generate_summary -> core.get_llm().stream         *)

LlmThreads == 1..NumLlmThreads
NoThread == 0
LlmSites == {"expansion", "answer", "opener", "summary"}

LlmIdle ==
    /\ llm_lock = NoThread
    /\ llm_pc = [t \in LlmThreads |-> "idle"]
    /\ llm_site = [t \in LlmThreads |-> "none"]
    /\ llm_left = [t \in LlmThreads |-> 0]

\* The threads with a blocking invoke or a token stream in progress on the
\* handle returned by get_llm().
llm_in_progress == {t \in LlmThreads : llm_pc[t] \in {"invoking", "streaming"}}

\* A handler reaches one of the call sites.
LlmBegin(t, site) ==
    /\ llm_pc[t] = "idle"
    /\ llm_site' = [llm_site EXCEPT ![t] = site]
    /\ llm_pc' = [llm_pc EXCEPT ![t] = "called"]
    /\ UNCHANGED <<llm_lock, llm_left>>
    /\ UNCHANGED <<rerankVars, cacheVars, retrVars, fnVars, streamVars, coreVars>>

\* core.safe_llm_invoke: "with llm_lock:" entered, llm.invoke running.
safe_llm_invoke_enter(t) ==
    /\ llm_pc[t] = "called"
    /\ llm_site[t] = "expansion"
    /\ llm_lock = NoThread
    /\ llm_lock' = t
    /\ llm_pc' = [llm_pc EXCEPT ![t] = "invoking"]
    /\ UNCHANGED <<llm_site, llm_left>>
    /\ UNCHANGED <<rerankVars, cacheVars, retrVars, fnVars, streamVars, coreVars>>

\* core.safe_llm_invoke: llm.invoke returns or raises; the with block is left.
safe_llm_invoke_exit(t) ==
    /\ llm_pc[t] = "invoking"
    /\ llm_lock' = NoThread
    /\ llm_pc' = [llm_pc EXCEPT ![t] = "idle"]
    /\ UNCHANGED <<llm_site, llm_left>>
    /\ UNCHANGED <<rerankVars, cacheVars, retrVars, fnVars, streamVars, coreVars>>

\* core.safe_llm_stream: the generator's first next() enters "with llm_lock:"
\* and starts llm.stream.
safe_llm_stream_enter(t) ==
    /\ llm_pc[t] = "called"
    /\ llm_site[t] \in {"answer", "opener"}
    /\ llm_lock = NoThread
    /\ llm_lock' = t
    /\ llm_pc' = [llm_pc EXCEPT ![t] = "streaming"]
    /\ \E n \in 0..MaxStreamChunks : llm_left' = [llm_left EXCEPT ![t] = n]
    /\ UNCHANGED llm_site
    /\ UNCHANGED <<rerankVars, cacheVars, retrVars, fnVars, streamVars, coreVars>>

\* app.py handle_generate_summary: llm = core.get_llm(); llm.stream(prompt)
\* is iterated directly; llm_lock is not touched.
summary_stream_enter(t) ==
    /\ llm_pc[t] = "called"
    /\ llm_site[t] = "summary"
    /\ llm_pc' = [llm_pc EXCEPT ![t] = "streaming"]
    /\ \E n \in 0..MaxStreamChunks : llm_left' = [llm_left EXCEPT ![t] = n]
    /\ UNCHANGED <<llm_lock, llm_site>>
    /\ UNCHANGED <<rerankVars, cacheVars, retrVars, fnVars, streamVars, coreVars>>

\* One chunk is yielded to the consumer.
LlmStreamChunk(t) ==
    /\ llm_pc[t] = "streaming"
    /\ llm_left[t] > 0
    /\ llm_left' = [llm_left EXCEPT ![t] = @ - 1]
    /\ UNCHANGED <<llm_lock, llm_pc, llm_site>>
    /\ UNCHANGED <<rerankVars, cacheVars, retrVars, fnVars, streamVars, coreVars>>

\* The stream is exhausted; safe_llm_stream leaves its with block.
LlmStreamEnd(t) ==
    /\ llm_pc[t] = "streaming"
    /\ llm_left[t] = 0
    /\ llm_lock' = IF llm_lock = t THEN NoThread ELSE llm_lock
    /\ llm_pc' = [llm_pc EXCEPT ![t] = "idle"]
    /\ UNCHANGED <<llm_site, llm_left>>
    /\ UNCHANGED <<rerankVars, cacheVars, retrVars, fnVars, streamVars, coreVars>>

LlmNext ==
    \E t \in LlmThreads :
        \/ \E site \in LlmSites : LlmBegin(t, site)
        \/ safe_llm_invoke_enter(t)
        \/ safe_llm_invoke_exit(t)
        \/ safe_llm_stream_enter(t)
        \/ summary_stream_enter(t)
        \/ LlmStreamChunk(t)
        \/ LlmStreamEnd(t)

-----------------------------------------------------------------------------
(* The response cache (core.py), query_docs (retrieval.py) and             *)
(* ingest_document (ingest.py)                                             *)
(* An answer is named by the index version its context was retrieved from. *)

QueryThreads == 1..NumQueryThreads
Queries == {"q1", "q2"}
Languages == {"en", "hi", "hi-romanized"}
\* For the cache only 'en' against any other language matters.
CacheLanguages == {"en", "hi"}
NoEntry == [answer |-> -1]

CacheIdle ==
    /\ index_version = 0
    /\ _response_cache = [q \in Queries |-> NoEntry]
    /\ q_pc = [t \in QueryThreads |-> "idle"]
    /\ q_query = [t \in QueryThreads |-> "q1"]
    /\ q_lang = [t \in QueryThreads |-> "en"]
    /\ q_ctx = [t \in QueryThreads |-> 0]
    /\ q_stale = [t \in QueryThreads |-> FALSE]
    /\ ing_pc = "idle"
    /\ ingests_done = 0

\* core.clear_cache
clear_cache(cache) == [q \in Queries |-> NoEntry]

\* core.clear_cache that forgets to clear
clear_cache_noop(cache) == cache

\* core.get_cache_entry
get_cache_entry(cache, query) == cache[query]

\* core.update_cache
update_cache(cache, query, answer) == [cache EXCEPT ![query] = [answer |-> answer]]

\* query_docs is called with a query and a language and reaches
\* "2. Check Cache": only for language 'en' the cache is read; a hit returns
\* iter([cached_answer]), cached_sources.  q_stale records whether the answer
\* served was generated from an index older than the last ingestion that
\* had completed when the call began.
QueryBegin(t, query, language) ==
    /\ q_pc[t] = "idle"
    /\ q_query' = [q_query EXCEPT ![t] = query]
    /\ q_lang' = [q_lang EXCEPT ![t] = language]
    /\ LET cache_entry == IF language = "en"
                          THEN get_cache_entry(_response_cache, query)
                          ELSE NoEntry
       IN  IF cache_entry # NoEntry
           THEN /\ q_stale' = [q_stale EXCEPT ![t] = cache_entry.answer < ingests_done]
                /\ q_pc' = [q_pc EXCEPT ![t] = "served_from_cache"]
           ELSE /\ q_pc' = [q_pc EXCEPT ![t] = "retrieve"]
                /\ UNCHANGED q_stale
    /\ UNCHANGED <<index_version, _response_cache, q_ctx, ing_pc, ingests_done>>
    /\ UNCHANGED <<rerankVars, llmVars, retrVars, fnVars, streamVars, coreVars>>

\* query_docs: retrieve_context reads the shards as they are now, the prompt
\* is built from that context and the answer stream is returned.
QueryRetrieve(t) ==
    /\ q_pc[t] = "retrieve"
    /\ q_ctx' = [q_ctx EXCEPT ![t] = index_version]
    /\ q_pc' = [q_pc EXCEPT ![t] = "streaming"]
    /\ UNCHANGED <<index_version, _response_cache, q_query, q_lang, q_stale,
                   ing_pc, ingests_done>>
    /\ UNCHANGED <<rerankVars, llmVars, retrVars, fnVars, streamVars, coreVars>>

\* response_wrapper: the stream is exhausted; for language 'en'
\* core.update_cache(effective_query, full_text, sources); the handler returns
\* and the thread may serve another request.
QueryStreamEnd(t) ==
    /\ q_pc[t] = "streaming"
    /\ _response_cache' = IF q_lang[t] = "en"
                          THEN update_cache(_response_cache, q_query[t], q_ctx[t])
                          ELSE _response_cache
    /\ q_pc' = [q_pc EXCEPT ![t] = "idle"]
    /\ q_query' = [q_query EXCEPT ![t] = "q1"]
    /\ q_lang' = [q_lang EXCEPT ![t] = "en"]
    /\ q_ctx' = [q_ctx EXCEPT ![t] = 0]
    /\ UNCHANGED <<index_version, q_stale, ing_pc, ingests_done>>
    /\ UNCHANGED <<rerankVars, llmVars, retrVars, fnVars, streamVars, coreVars>>

\* The handler that was served from the cache returns.
QueryReturn(t) ==
    /\ q_pc[t] = "served_from_cache"
    /\ q_pc' = [q_pc EXCEPT ![t] = "idle"]
    /\ q_query' = [q_query EXCEPT ![t] = "q1"]
    /\ q_lang' = [q_lang EXCEPT ![t] = "en"]
    /\ q_stale' = [q_stale EXCEPT ![t] = FALSE]
    /\ UNCHANGED <<index_version, _response_cache, q_ctx, ing_pc, ingests_done>>
    /\ UNCHANGED <<rerankVars, llmVars, retrVars, fnVars, streamVars, coreVars>>

\* ingest_document: dbs[i].add_documents(batch) for the shards' batches.
IngestAddDocuments ==
    /\ ing_pc = "idle"
    /\ index_version < MaxIngests
    /\ index_version' = index_version + 1
    /\ ing_pc' = "added"
    /\ UNCHANGED <<_response_cache, q_pc, q_query, q_lang, q_ctx, q_stale,
                   ingests_done>>
    /\ UNCHANGED <<rerankVars, llmVars, retrVars, fnVars, streamVars, coreVars>>

\* ingest_document: "Invalidate cache on new ingest": core.clear_cache(),
\* then the function returns.
IngestClearCache ==
    /\ ing_pc = "added"
    /\ _response_cache' = clear_cache(_response_cache)
    /\ ingests_done' = index_version
    /\ ing_pc' = "idle"
    /\ UNCHANGED <<index_version, q_pc, q_query, q_lang, q_ctx, q_stale>>
    /\ UNCHANGED <<rerankVars, llmVars, retrVars, fnVars, streamVars, coreVars>>

CacheNext ==
    \/ \E t \in QueryThreads :
        \/ \E query \in Queries, language \in CacheLanguages : QueryBegin(t, query, language)
        \/ QueryRetrieve(t)
        \/ QueryStreamEnd(t)
        \/ QueryReturn(t)
    \/ IngestAddDocuments
    \/ IngestClearCache

-----------------------------------------------------------------------------
(* retrieve_context (retrieval.py) and its callers                         *)
(* One call is followed from its first statement to the caller's use of    *)
(* the returned list.  A search round is the block                         *)
(*     with ThreadPoolExecutor(max_workers=core.NUM_SHARDS) as executor:   *)
(*         futures = [executor.submit(search, db) for db in dbs]           *)
(*         for future in as_completed(futures):                            *)
(*             try: results.extend(future.result())                        *)
(*             except Exception: pass                                      *)
(* and is modelled future by future.                                       *)

NUM_SHARDS == 3
Shards == 1..NUM_SHARDS

max_k == 20
max_depth_levels == 3
RerankTopK == 5           \* rerank_results(..., top_k=5)
AdaptiveRerankTopK == 7   \* rerank_results(..., top_k=7)
FilteredK == 10           \* search_filtered: k=10
ExpansionK == 5           \* min(current_k, 5)
AdaptiveK == 5            \* adaptive round: k=5
MaxExpansions == 3        \* expansions[:3]
MaxMissingKeywords == 3   \* relevance_check['missing_keywords'][:3]
ExactScore == 0           \* all_results.append((exact_doc, 0.0))
SummaryScore == 1         \* all_results.append((s_doc, 0.0001))
ChunkFloor == 2           \* r[1] > 0.0002
DeepenAbove == 30000      \* best_score > 3.0
DeepenStopBelow == 25000  \* new_best_score < 2.5
BoostBy == 5000           \* score - 0.5
BoostFloor == 10          \* max(..., 0.001)

MaxKeywords == 4     \* most relevance keywords taken from one query

\* The callers of retrieve_context and the arguments they pass:
\*   "chat"       query_docs, persona 'default': n_results = 50
\*   "kira_fast"  app.py handle_message, Kira fast path: n_results=3
\*   "summary"    app.py handle_generate_summary: n_results=10
Callers == {"chat", "kira_fast", "summary"}
persona == IF caller = "kira_fast" THEN "kira" ELSE "default"
n_results == CASE caller = "chat" -> 50
               [] caller = "kira_fast" -> 3
               [] OTHER -> 10

\* Two of the four types of analyze_query_complexity: "simple" asks for a
\* coverage of 0.7 and gives Kira no expansion, "complex" asks for 0.5 and
\* expands for every persona.
QueryTypes == {"simple", "complex"}

\* Texts of the documents that can enter the pool.
ExactText == "OFFICIAL LEGAL RECORD ... Text: <entry content>"
CoreFile == "BNS.pdf"
PlainFile == "notes.pdf"
SummaryText(filename) ==
    IF filename = CoreFile THEN "DOCUMENT SUMMARY for BNS.pdf: <summary>"
    ELSE "DOCUMENT SUMMARY for notes.pdf: <summary>"

\* any(c_acro in fname_upper for c_acro in CORE_DOC_MAPPING.keys())
IsCoreDoc(filename) == filename = CoreFile

\* The 'Gold Standard' document of the exact section lookup: its metadata has
\* the keys source, type, section and confidence, and no 'filename'.
exact_doc == Doc(ExactText, NoFile)

\* The summary document injected for a matched upload.
s_doc(filename) == Doc(SummaryText(filename), filename)

\* Chunks of the vector store, with the distance of each to the query.
ChunkNear == Cand(Doc("chunk near", CoreFile), 20000, "distance")
ChunkMid  == Cand(Doc("chunk mid", PlainFile), 28000, "distance")
ChunkFar  == Cand(Doc("chunk far", CoreFile), 35000, "distance")

\* Contents of the shards.  ingest_document deals the chunks of a file to
\* the shards round robin, so any shard can hold any chunk.
Stores ==
    { [s \in Shards |-> <<>>],
      [s \in Shards |-> IF s = 1 THEN <<ChunkNear>>
                        ELSE IF s = 2 THEN <<ChunkMid>> ELSE <<ChunkFar>>],
      [s \in Shards |-> IF s = 3 THEN <<>> ELSE <<ChunkFar>>] }

\* search_uploads_index(effective_query): no match, a plain upload or a core
\* document, each with a stored summary.
MatchedDocsChoices ==
    { <<>>,
      <<[filename |-> PlainFile, summary |-> "summary"]>>,
      <<[filename |-> CoreFile, summary |-> "summary"]>> }

AllTexts == {ExactText, SummaryText(PlainFile), SummaryText(CoreFile),
             "chunk near", "chunk mid", "chunk far"}

\* Two cross-encoders: one finds the official record the most relevant
\* passage, the other the least relevant.
RerankerScores ==
    { [t \in AllTexts |->
          CASE t = ExactText -> 9900
            [] t = "chunk near" -> 8000
            [] t = "chunk mid" -> 6000
            [] t = "chunk far" -> 3000
            [] OTHER -> 5000],
      [t \in AllTexts |->
          CASE t = ExactText -> 100
            [] t = "chunk near" -> 2000
            [] t = "chunk mid" -> 7000
            [] t = "chunk far" -> 9000
            [] OTHER -> 5000] }

\* retrieval._reranker before the model is loaded (None).
NoReranker == [loaded |-> FALSE, score |-> [t \in AllTexts |-> 0]]

\* Orders in which the three futures of a round can complete.
\* Submission order and its reverse: every two shards complete in both
\* relative orders.
CompletionOrders == {<<1, 2, 3>>, <<3, 2, 1>>}

\* The shards that answer a search and hold at least one chunk.
Contributing(st, down) == {s \in Shards : s \notin down /\ st[s] # <<>>}

\* The environments of a call.  Left out are those that repeat another one:
\* a completion order other than the submission order where fewer than two
\* shards contribute, and a failing empty shard unless every shard fails.
Environments ==
    {e \in [store : Stores, shard_down : SUBSET Shards,
            completion_order : CompletionOrders] :
        /\ e.completion_order # <<1, 2, 3>> =>
               Cardinality(Contributing(e.store, e.shard_down)) >= 2
        /\ \/ e.shard_down = Shards
           \/ \A s \in e.shard_down : e.store[s] # <<>>}

\* db.similarity_search_with_score(phrase, k=k, filter=f_filter) on a shard:
\* the k nearest chunks among those that pass the filter.  NoFile stands for
\* a call without filter.
similarity_search_with_score(chunks, k, filter) ==
    LET passes(c) == filter = NoFile \/ c.doc.filename = filter
    IN  Take(SelectSeq(chunks, passes), k)

\* The future of one shard query: it raised, or it holds the results.
shard_future(s, rnd) ==
    IF s \in shard_down
    THEN [raised |-> TRUE, results |-> <<>>]
    ELSE [raised |-> FALSE,
          results |-> similarity_search_with_score(store[s], rnd.k, rnd.filter)]

\* search_filtered: its own try/except turns a raise into [].
search_filtered(fut) ==
    IF fut.raised THEN [raised |-> FALSE, results |-> <<>>] ELSE fut

\* boosted_res = [(doc, max(score - 0.5, 0.001)) for doc, score in res]
boosted_res(res) ==
    [i \in 1..Len(res) |->
        Cand(res[i].doc, Max(res[i].score.val - BoostBy, BoostFloor), "distance")]

\* try: results.extend(future.result()) / except Exception: pass
\* without the try/except
extend_with_future_unguarded(results, fut) ==
    [results |-> results \o fut.results, escaped |-> fut.raised]

\* try: results.extend(future.result()) / except Exception: pass
\* escaped tells whether an exception leaves the round.
extend_with_future(results, fut) ==
    [results |-> IF fut.raised THEN results ELSE results \o fut.results,
     escaped |-> FALSE]

\* min(score for _, score in results), for a non-empty list
MinScore(results) ==
    CHOOSE v \in {results[i].score.val : i \in 1..Len(results)} :
        \A i \in 1..Len(results) : v <= results[i].score.val

NoPhrase == <<"none", 0>>
NoRound == [kind |-> "none", phrase |-> NoPhrase, k |-> 0, filter |-> NoFile]
NoShardQueries == [submitted |-> [s \in Shards |-> NoPhrase],
                   searched |-> [s \in Shards |-> NoPhrase],
                   in_flight |-> 0]
NoRef == [all_results |-> <<>>, deeper_results |-> <<>>, adaptive_results |-> <<>>,
          top_results |-> <<>>]
NoOut == [kind |-> "none", requested |-> "none", message_language |-> "none",
          sources |-> {}]

RetrIdle ==
    /\ caller = "none"
    /\ query_complexity = [type |-> "simple"]
    /\ sections_hit = <<>>
    /\ matched_docs = <<>>
    /\ store = [s \in Shards |-> <<>>]
    /\ shard_down = {}
    /\ completion_order = <<1, 2, 3>>
    /\ _reranker = NoReranker
    /\ r_pc = "idle"
    /\ all_results = <<>>
    /\ deeper_results = <<>>
    /\ adaptive_results = <<>>
    /\ top_results = <<>>
    /\ skip_general_search = FALSE
    /\ needs_deepening = FALSE
    /\ current_k = 0
    /\ search_depth_level = 1
    /\ expanded_queries = <<>>
    /\ adaptive_queries = <<>>
    /\ round = NoRound
    /\ pending = {}
    /\ round_base = 0
    /\ round_returned = <<>>
    /\ round_calls = [s \in Shards |-> 0]
    /\ shard_queries = NoShardQueries
    /\ ref = NoRef
    /\ searched = FALSE
    /\ rerank_calls = 0
    /\ relevance_checks = 0
    /\ adaptive_rounds = 0
    /\ r_error = FALSE
    /\ out = NoOut
    /\ answer_llm_calls = 0
    /\ cache_written = FALSE
    /\ sorted_contexts = <<>>

\* retrieve_context is entered (lines 504-539): the inputs are fixed, the
\* locals are as in RetrIdle.
RetrInit ==
    /\ caller \in Callers
    /\ query_complexity \in [type : QueryTypes]
    /\ sections_hit \in {<<>>, <<"302">>}
    /\ matched_docs \in MatchedDocsChoices
    /\ \E e \in Environments :
           /\ store = e.store
           /\ shard_down = e.shard_down
           /\ completion_order = e.completion_order
    /\ _reranker = NoReranker
    /\ r_pc = "exact"
    /\ all_results = <<>>
    /\ deeper_results = <<>>
    /\ adaptive_results = <<>>
    /\ top_results = <<>>
    /\ skip_general_search = FALSE
    /\ needs_deepening = FALSE
    /\ current_k = 0
    /\ search_depth_level = 1
    /\ expanded_queries = <<>>
    /\ adaptive_queries = <<>>
    /\ round = NoRound
    /\ pending = {}
    /\ round_base = 0
    /\ round_returned = <<>>
    /\ round_calls = [s \in Shards |-> 0]
    /\ shard_queries = NoShardQueries
    /\ ref = NoRef
    /\ searched = FALSE
    /\ rerank_calls = 0
    /\ relevance_checks = 0
    /\ adaptive_rounds = 0
    /\ r_error = FALSE
    /\ out = NoOut
    /\ answer_llm_calls = 0
    /\ cache_written = FALSE
    /\ sorted_contexts = <<>>

\* The list a round of the given kind extends.
RoundList(kind) ==
    CASE kind = "deepening" -> deeper_results
      [] kind = "adaptive" -> adaptive_results
      [] OTHER -> all_results

\* with ThreadPoolExecutor(...) as executor:
\*     futures = [executor.submit(search, db) for db in dbs]
StartRound(kind, phrase, k, filter, base) ==
    /\ round' = [kind |-> kind, phrase |-> phrase, k |-> k, filter |-> filter]
    /\ pending' = Shards
    /\ round_base' = base
    /\ round_returned' = <<>>
    /\ round_calls' = [s \in Shards |-> 0]
    /\ shard_queries' = [submitted |-> [s \in Shards |-> phrase],
                         searched |-> [s \in Shards |-> NoPhrase],
                         in_flight |-> shard_queries.in_flight + NUM_SHARDS]
    /\ r_pc' = "round"

\* Leaving "with ThreadPoolExecutor(...) as executor:" without waiting
RoundJoined_no_wait == TRUE

\* Leaving "with ThreadPoolExecutor(...) as executor:" waits for every
\* submitted future (shutdown(wait=True)), and as_completed has yielded them
\* all.
RoundJoined == pending = {}

\* The with block is left and no further round follows at once.
EndRound ==
    /\ round' = NoRound
    /\ pending' = {}
    /\ round_base' = 0
    /\ round_returned' = <<>>
    /\ round_calls' = [s \in Shards |-> 0]
    /\ shard_queries' = [NoShardQueries EXCEPT !.in_flight = shard_queries.in_flight]

\* STRATEGY 0: EXACT SECTION LOOKUP (lines 541-571): one appended
\* (exact_doc, 0.0) for every keyword of the index found in the query.
ExactSectionLookup ==
    /\ r_pc = "exact"
    /\ all_results' = [i \in 1..Len(sections_hit) |->
                          Cand(exact_doc, ExactScore, "distance")]
    /\ r_pc' = "uploads"
    /\ UNCHANGED <<deeper_results, adaptive_results, top_results,
                   skip_general_search, needs_deepening, current_k,
                   search_depth_level, expanded_queries, adaptive_queries,
                   round, pending>>
    /\ UNCHANGED <<inputVars, histVars, callerVars>>
    /\ ref' = [ref EXCEPT !.all_results = all_results']
    /\ UNCHANGED <<_reranker, rerankVars, llmVars, cacheVars, fnVars, streamVars, coreVars>>

\* STRATEGY 0.5: STRUCTURED INDEX RETRIEVAL (lines 573-623): core documents
\* set skip_general_search, summaries are injected, and a filtered search is
\* submitted to every shard when there are target filenames.
StructuredIndexRetrieval ==
    /\ r_pc = "uploads"
    /\ LET found_core_docs ==
               {i \in 1..Len(matched_docs) : IsCoreDoc(matched_docs[i].filename)}
           summaries ==
               [i \in 1..Len(matched_docs) |->
                   Cand(s_doc(matched_docs[i].filename), SummaryScore, "distance")]
           target_filenames ==
               [i \in 1..Len(matched_docs) |-> matched_docs[i].filename]
       IN  /\ skip_general_search' = (found_core_docs # {})
           /\ all_results' = all_results \o summaries
           /\ IF target_filenames # <<>>
              THEN StartRound("filtered", <<"query", 0>>, FilteredK,
                              target_filenames[1], Len(all_results'))
              ELSE /\ r_pc' = "primary"
                   /\ UNCHANGED <<round, pending, round_base, round_returned,
                                  round_calls, shard_queries>>
    /\ UNCHANGED <<deeper_results, adaptive_results, top_results,
                   needs_deepening, current_k, search_depth_level,
                   expanded_queries, adaptive_queries>>
    /\ UNCHANGED <<searched, rerank_calls, relevance_checks, adaptive_rounds,
                   r_error>>
    /\ UNCHANGED <<inputVars, callerVars>>
    /\ ref' = [ref EXCEPT !.all_results =
                   @ \o [i \in 1..Len(matched_docs) |->
                            Cand(s_doc(matched_docs[i].filename), SummaryScore,
                                 "distance")]]
    /\ UNCHANGED <<_reranker, rerankVars, llmVars, cacheVars, fnVars, streamVars, coreVars>>

\* The shard whose future as_completed yields next.
NextToComplete ==
    completion_order[CHOOSE i \in 1..NUM_SHARDS :
        /\ completion_order[i] \in pending
        /\ \A j \in 1..(i - 1) : completion_order[j] \notin pending]

\* What the future of shard s holds in the round in progress.
round_future(s) ==
    LET raw == shard_future(s, round)
    IN  IF round.kind = "filtered"
        THEN [raised |-> FALSE,
              results |-> boosted_res(search_filtered(raw).results)]
        ELSE raw

\* The field of ref a round of the given kind extends.
RefList(kind) ==
    CASE kind = "deepening" -> "deeper_results"
      [] kind = "adaptive" -> "adaptive_results"
      [] OTHER -> "all_results"

\* The list had the round's futures completed in the order they were
\* submitted (for db in dbs): the results of shard s stand before those of
\* the shards after s that have completed already.
insert_in_submission_order(list, s, new) ==
    LET RECURSIVE later(_)
        later(ss) ==
            IF ss = {} THEN 0
            ELSE LET x == CHOOSE y \in ss : TRUE
                 IN  (IF round_future(x).raised THEN 0
                      ELSE Len(round_future(x).results)) + later(ss \ {x})
        g == later({x \in Shards \ pending : x > s})
    IN  SubSeq(list, 1, Len(list) - g) \o new
            \o SubSeq(list, Len(list) - g + 1, Len(list))

\* One future of the round completes and the loop body of
\* "for future in as_completed(futures)" runs on it.  An exception that
\* leaves the loop body leaves retrieve_context.
ShardComplete(s) ==
    /\ r_pc = "round"
    /\ pending # {}
    /\ s = NextToComplete
    /\ LET raw == shard_future(s, round)
           fut == round_future(s)
           ext == extend_with_future(RoundList(round.kind), fut)
       IN  /\ ref' = [ref EXCEPT
                         ![RefList(round.kind)] =
                             IF fut.raised THEN @
                             ELSE insert_in_submission_order(@, s, fut.results)]
           /\ shard_queries' =
                  [shard_queries EXCEPT
                      !.searched[s] = round.phrase,
                      !.in_flight = IF ext.escaped THEN 0 ELSE @ - 1]
           /\ all_results' = IF round.kind \in {"filtered", "primary", "expansion"}
                             THEN ext.results ELSE all_results
           /\ deeper_results' = IF round.kind = "deepening"
                                THEN ext.results ELSE deeper_results
           /\ adaptive_results' = IF round.kind = "adaptive"
                                  THEN ext.results ELSE adaptive_results
           /\ round_returned' = IF raw.raised THEN round_returned
                                ELSE Append(round_returned, s)
           /\ r_error' = (r_error \/ ext.escaped)
           /\ IF ext.escaped
              THEN pending' = {} /\ r_pc' = "return"
              ELSE pending' = pending \ {s} /\ r_pc' = "round"
    /\ round_calls' = [round_calls EXCEPT ![s] = @ + 1]
    /\ searched' = TRUE
    /\ UNCHANGED <<top_results, skip_general_search, needs_deepening, current_k,
                   search_depth_level, expanded_queries, adaptive_queries, round>>
    /\ UNCHANGED <<round_base, rerank_calls, relevance_checks, adaptive_rounds>>
    /\ UNCHANGED <<inputVars, callerVars>>
    /\ UNCHANGED <<_reranker, rerankVars, llmVars, cacheVars, fnVars, streamVars, coreVars>>

\* The with block of the filtered search is left (line 632).
JoinFiltered ==
    /\ r_pc = "round"
    /\ RoundJoined
    /\ round.kind = "filtered"
    /\ r_pc' = "primary"
    /\ EndRound
    /\ UNCHANGED <<all_results, deeper_results, adaptive_results, top_results,
                   skip_general_search, needs_deepening, current_k,
                   search_depth_level, expanded_queries, adaptive_queries>>
    /\ UNCHANGED <<searched, rerank_calls, relevance_checks, adaptive_rounds,
                   r_error>>
    /\ UNCHANGED <<inputVars, callerVars>>
    /\ UNCHANGED <<ref, _reranker, rerankVars, llmVars, cacheVars, fnVars, streamVars, coreVars>>

\* PROGRESSIVE DEEPENING, level 1 (lines 637-651): the locals are set and,
\* unless skip_general_search, the primary round is submitted.
PrimarySearch ==
    /\ r_pc = "primary"
    /\ current_k' = n_results
    /\ search_depth_level' = 1
    /\ IF ~skip_general_search
       THEN StartRound("primary", <<"query", 0>>, n_results, NoFile,
                       Len(all_results))
       ELSE /\ r_pc' = "check"
            /\ UNCHANGED <<round, pending, round_base, round_returned,
                           round_calls, shard_queries>>
    /\ UNCHANGED <<all_results, deeper_results, adaptive_results, top_results,
                   skip_general_search, needs_deepening, expanded_queries,
                   adaptive_queries>>
    /\ UNCHANGED <<searched, rerank_calls, relevance_checks, adaptive_rounds,
                   r_error>>
    /\ UNCHANGED <<inputVars, callerVars>>
    /\ UNCHANGED <<ref, _reranker, rerankVars, llmVars, cacheVars, fnVars, streamVars, coreVars>>

\* The with block of the primary round is left (line 656).
JoinPrimary ==
    /\ r_pc = "round"
    /\ RoundJoined
    /\ round.kind = "primary"
    /\ r_pc' = "check"
    /\ EndRound
    /\ UNCHANGED <<all_results, deeper_results, adaptive_results, top_results,
                   skip_general_search, needs_deepening, current_k,
                   search_depth_level, expanded_queries, adaptive_queries>>
    /\ UNCHANGED <<searched, rerank_calls, relevance_checks, adaptive_rounds,
                   r_error>>
    /\ UNCHANGED <<inputVars, callerVars>>
    /\ UNCHANGED <<ref, _reranker, rerankVars, llmVars, cacheVars, fnVars, streamVars, coreVars>>

\* "Check if we need to dig deeper" (lines 659-671)
deepening_decision(results, skip) ==
    IF results # <<>>
    THEN LET best_score == MinScore(results)
             chunk_count == Cardinality({i \in 1..Len(results) :
                                            results[i].score.val > ChunkFloor})
         IN  IF skip /\ chunk_count < 3
             THEN [needs_deepening |-> TRUE, skip_general_search |-> FALSE]
             ELSE IF best_score > DeepenAbove
                  THEN [needs_deepening |-> TRUE, skip_general_search |-> skip]
                  ELSE [needs_deepening |-> FALSE, skip_general_search |-> skip]
    ELSE [needs_deepening |-> TRUE, skip_general_search |-> FALSE]

\* The head of the deepening loop without the cap min(..., max_k) on k
StartDeepening_uncapped ==
    /\ search_depth_level' = search_depth_level + 1
    /\ current_k' = current_k * 2
    /\ deeper_results' = <<>>
    /\ StartRound("deepening", <<"query", 0>>, current_k * 2, NoFile, 0)

\* One pass of the head of the deepening loop (lines 675-682): the level and
\* k are raised and the round is submitted.
StartDeepening ==
    /\ search_depth_level' = search_depth_level + 1
    /\ current_k' = Min(current_k * 2, max_k)
    /\ deeper_results' = <<>>
    /\ StartRound("deepening", <<"query", 0>>, Min(current_k * 2, max_k), NoFile, 0)

\* Lines 659-682: the decision, and the first deepening round if it is taken.
CheckDeepening ==
    /\ r_pc = "check"
    /\ LET d == deepening_decision(all_results, skip_general_search)
       IN  /\ needs_deepening' = d.needs_deepening
           /\ skip_general_search' = d.skip_general_search
           /\ IF d.needs_deepening /\ search_depth_level < max_depth_levels
              THEN StartDeepening
              ELSE /\ r_pc' = "expand"
                   /\ UNCHANGED <<deeper_results, current_k, search_depth_level,
                                  round, pending, round_base, round_returned,
                                  round_calls, shard_queries>>
    /\ UNCHANGED <<all_results, adaptive_results, top_results, expanded_queries,
                   adaptive_queries>>
    /\ UNCHANGED <<searched, rerank_calls, relevance_checks, adaptive_rounds,
                   r_error>>
    /\ UNCHANGED <<inputVars, callerVars>>
    /\ ref' = IF deepening_decision(all_results, skip_general_search).needs_deepening
                   /\ search_depth_level < max_depth_levels
               THEN [ref EXCEPT !.deeper_results = <<>>]
               ELSE ref
    /\ UNCHANGED <<_reranker, rerankVars, llmVars, cacheVars, fnVars, streamVars, coreVars>>

\* The rest of the loop body after a deepening round (lines 689-695), and
\* the loop condition for the next pass.
JoinDeepening ==
    /\ r_pc = "round"
    /\ RoundJoined
    /\ round.kind = "deepening"
    /\ all_results' = all_results \o deeper_results
    /\ LET break == IF deeper_results # <<>>
                    THEN MinScore(deeper_results) < DeepenStopBelow
                    ELSE TRUE
       IN  IF ~break /\ needs_deepening /\ search_depth_level < max_depth_levels
           THEN StartDeepening
           ELSE /\ r_pc' = "expand"
                /\ EndRound
                /\ UNCHANGED <<deeper_results, current_k, search_depth_level>>
    /\ UNCHANGED <<adaptive_results, top_results, skip_general_search,
                   needs_deepening, expanded_queries, adaptive_queries>>
    /\ UNCHANGED <<searched, rerank_calls, relevance_checks, adaptive_rounds,
                   r_error>>
    /\ UNCHANGED <<inputVars, callerVars>>
    /\ ref' = [ref EXCEPT !.all_results = @ \o ref.deeper_results,
                          !.deeper_results = IF r_pc' = "round" THEN <<>> ELSE @]
    /\ UNCHANGED <<_reranker, rerankVars, llmVars, cacheVars, fnVars, streamVars, coreVars>>

\* Strategy 2: Query Expansion (lines 700-705).  generate_query_expansions
\* returns n phrases, n <= 3; the first round is submitted.
QueryExpansion(n) ==
    /\ r_pc = "expand"
    /\ IF query_complexity.type \in {"complex", "comparative"} \/ persona # "kira"
       THEN IF n > 0
            THEN /\ expanded_queries' = [i \in 1..(n - 1) |-> <<"expansion", i + 1>>]
                 /\ StartRound("expansion", <<"expansion", 1>>,
                               Min(current_k, ExpansionK), NoFile, Len(all_results))
            ELSE /\ r_pc' = "rerank"
                 /\ UNCHANGED <<expanded_queries, round, pending, round_base,
                                round_returned, round_calls, shard_queries>>
       ELSE /\ n = 0
            /\ r_pc' = "rerank"
            /\ UNCHANGED <<expanded_queries, round, pending, round_base,
                           round_returned, round_calls, shard_queries>>
    /\ UNCHANGED <<all_results, deeper_results, adaptive_results, top_results,
                   skip_general_search, needs_deepening, current_k,
                   search_depth_level, adaptive_queries>>
    /\ UNCHANGED <<searched, rerank_calls, relevance_checks, adaptive_rounds,
                   r_error>>
    /\ UNCHANGED <<inputVars, callerVars>>
    /\ UNCHANGED <<ref, _reranker, rerankVars, llmVars, cacheVars, fnVars, streamVars, coreVars>>

\* An expansion round is left (line 710); the for loop takes the next phrase.
JoinExpansion ==
    /\ r_pc = "round"
    /\ RoundJoined
    /\ round.kind = "expansion"
    /\ IF expanded_queries # <<>>
       THEN /\ expanded_queries' = Tail(expanded_queries)
            /\ StartRound("expansion", Head(expanded_queries),
                          Min(current_k, ExpansionK), NoFile, Len(all_results))
       ELSE /\ r_pc' = "rerank"
            /\ EndRound
            /\ UNCHANGED expanded_queries
    /\ UNCHANGED <<all_results, deeper_results, adaptive_results, top_results,
                   skip_general_search, needs_deepening, current_k,
                   search_depth_level, adaptive_queries>>
    /\ UNCHANGED <<searched, rerank_calls, relevance_checks, adaptive_rounds,
                   r_error>>
    /\ UNCHANGED <<inputVars, callerVars>>
    /\ UNCHANGED <<ref, _reranker, rerankVars, llmVars, cacheVars, fnVars, streamVars, coreVars>>

\* retrieval.py get_reranker as rerank_results calls it: the loaded model is
\* returned; a model not yet loaded is loaded now, or the load fails and
\* _reranker stays None.  mode is what the reranker does in this call, score
\* the scoring of the model that is loaded.
get_reranker(mode, score) ==
    IF _reranker.loaded THEN _reranker
    ELSE IF mode = "load_failed" THEN NoReranker
    ELSE [loaded |-> TRUE, score |-> score]

RerankerCall(mode, score) ==
    /\ _reranker.loaded => (mode # "load_failed" /\ score = _reranker.score)
    /\ mode = "load_failed" => score = NoReranker.score

\* Lines 713-721: deduplicate, rerank with top_k=5, return [] on an empty
\* result.
DedupAndRerank(mode, score) ==
    /\ r_pc = "rerank"
    /\ RerankerCall(mode, score)
    /\ _reranker' = get_reranker(mode, score)
    /\ all_results' = deduplicate_results(all_results)
    /\ top_results' = rerank_results([mode |-> mode, score |-> score],
                                     deduplicate_results(all_results), RerankTopK)
    /\ rerank_calls' = rerank_calls + 1
    /\ r_pc' = IF top_results' = <<>> THEN "return" ELSE "relevance"
    /\ UNCHANGED <<deeper_results, adaptive_results, skip_general_search,
                   needs_deepening, current_k, search_depth_level,
                   expanded_queries, adaptive_queries, round, pending>>
    /\ UNCHANGED <<round_base, round_returned, round_calls, shard_queries, searched,
                   relevance_checks, adaptive_rounds, r_error>>
    /\ UNCHANGED <<inputVars, callerVars>>
    /\ ref' = [ref EXCEPT !.all_results = deduplicate_results(@),
                          !.top_results =
                              rerank_results([mode |-> mode, score |-> score],
                                             deduplicate_results(ref.all_results),
                                             RerankTopK)]
    /\ UNCHANGED <<rerankVars, llmVars, cacheVars, fnVars, streamVars, coreVars>>

\* list(a set of keywords): the keywords are interchangeable names, the list
\* is taken in ascending order.
SetToSeq(S) ==
    LET RECURSIVE go(_, _)
        go(rest, acc) ==
            IF rest = {} THEN acc
            ELSE LET x == CHOOSE y \in rest : \A z \in rest : y <= z
                 IN  go(rest \ {x}, Append(acc, x))
    IN  go(S, <<>>)

\* min_coverage of check_context_relevance, in tenths
min_coverage(type) ==
    CASE type = "simple" -> 7
      [] type = "complex" -> 5
      [] type = "comparative" -> 4
      [] type = "procedural" -> 6
      [] OTHER -> 5

\* check_context_relevance with the coverage taken from the missing keywords
check_context_relevance_missing_coverage(query_keywords, in_context, qc) ==
    LET found_keywords == {kw \in query_keywords : kw \in in_context}
        missing_keywords == {kw \in query_keywords : kw \notin in_context}
    IN  IF query_keywords = {}
        THEN [is_relevant |-> TRUE, missing_keywords |-> <<>>]
        ELSE [is_relevant |->
                  Cardinality(missing_keywords) * 10
                      >= min_coverage(qc.type) * Cardinality(query_keywords),
              missing_keywords |-> SetToSeq(missing_keywords)]

\* retrieval.py check_context_relevance, from the keywords it extracts from
\* the query and the set of them that occur in the context.
check_context_relevance(query_keywords, in_context, qc) ==
    LET found_keywords == {kw \in query_keywords : kw \in in_context}
        missing_keywords == {kw \in query_keywords : kw \notin in_context}
    IN  IF query_keywords = {}
        THEN [is_relevant |-> TRUE, missing_keywords |-> <<>>]
        ELSE [is_relevant |->
                  Cardinality(found_keywords) * 10
                      >= min_coverage(qc.type) * Cardinality(query_keywords),
              missing_keywords |-> SetToSeq(missing_keywords)]

\* adaptive_queries of lines 735-743 without the [:3] on the missing keywords
build_adaptive_queries_uncapped(missing_keywords, long_query) ==
    LET kws == missing_keywords
        targeted == [i \in 1..(2 * Len(kws)) |->
                        IF i % 2 = 1 THEN <<"keyword and query", kws[(i + 1) \div 2]>>
                        ELSE <<"keyword", kws[i \div 2]>>]
    IN  IF long_query
        THEN targeted \o << <<"first three words", 0>>, <<"last three words", 0>> >>
        ELSE targeted

\* adaptive_queries of lines 735-743
build_adaptive_queries(missing_keywords, long_query) ==
    LET kws == Take(missing_keywords, MaxMissingKeywords)
        targeted == [i \in 1..(2 * Len(kws)) |->
                        IF i % 2 = 1 THEN <<"keyword and query", kws[(i + 1) \div 2]>>
                        ELSE <<"keyword", kws[i \div 2]>>]
    IN  IF long_query
        THEN targeted \o << <<"first three words", 0>>, <<"last three words", 0>> >>
        ELSE targeted

\* INTELLIGENT FEEDBACK LOOP (lines 724-748).  The query has nkw relevance
\* keywords, of which the first m are missing from the context; long_query is
\* len(effective_query.split()) > 3.
RelevanceCheck(nkw, m, long_query) ==
    /\ r_pc = "relevance"
    /\ relevance_checks' = relevance_checks + 1
    /\ LET relevance_check ==
               check_context_relevance(1..nkw, (m + 1)..nkw, query_complexity)
           queries == build_adaptive_queries(relevance_check.missing_keywords,
                                             long_query)
       IN  IF ~relevance_check.is_relevant /\ relevance_check.missing_keywords # <<>>
           THEN /\ adaptive_queries' = Tail(queries)
                /\ adaptive_results' = <<>>
                /\ StartRound("adaptive", Head(queries), AdaptiveK, NoFile, 0)
           ELSE /\ r_pc' = "return"
                /\ UNCHANGED <<adaptive_queries, adaptive_results, round, pending,
                               round_base, round_returned, round_calls, shard_queries>>
    /\ UNCHANGED <<all_results, deeper_results, top_results, skip_general_search,
                   needs_deepening, current_k, search_depth_level,
                   expanded_queries>>
    /\ UNCHANGED <<searched, rerank_calls, adaptive_rounds, r_error>>
    /\ UNCHANGED <<inputVars, callerVars>>
    /\ ref' = IF r_pc' = "round" THEN [ref EXCEPT !.adaptive_results = <<>>] ELSE ref
    /\ UNCHANGED <<_reranker, rerankVars, llmVars, cacheVars, fnVars, streamVars, coreVars>>

\* An adaptive round is left (line 753); the for loop takes the next phrase.
JoinAdaptive ==
    /\ r_pc = "round"
    /\ RoundJoined
    /\ round.kind = "adaptive"
    /\ adaptive_rounds' = adaptive_rounds + 1
    /\ IF adaptive_queries # <<>>
       THEN /\ adaptive_queries' = Tail(adaptive_queries)
            /\ StartRound("adaptive", Head(adaptive_queries), AdaptiveK, NoFile,
                          Len(adaptive_results))
       ELSE /\ r_pc' = "merge"
            /\ EndRound
            /\ UNCHANGED adaptive_queries
    /\ UNCHANGED <<all_results, deeper_results, adaptive_results, top_results,
                   skip_general_search, needs_deepening, current_k,
                   search_depth_level, expanded_queries>>
    /\ UNCHANGED <<searched, rerank_calls, relevance_checks, r_error>>
    /\ UNCHANGED <<inputVars, callerVars>>
    /\ UNCHANGED <<ref, _reranker, rerankVars, llmVars, cacheVars, fnVars, streamVars, coreVars>>

\* Lines 755-762: the adaptive results are merged, deduplicated and reranked
\* with top_k=7; retrieve_context returns top_results.
AdaptiveMerge(mode, score) ==
    /\ r_pc = "merge"
    /\ IF adaptive_results # <<>>
       THEN /\ RerankerCall(mode, score)
            /\ _reranker' = get_reranker(mode, score)
            /\ all_results' = deduplicate_results(all_results \o adaptive_results)
            /\ top_results' =
                   rerank_results([mode |-> mode, score |-> score],
                                  deduplicate_results(all_results \o adaptive_results),
                                  AdaptiveRerankTopK)
            /\ rerank_calls' = rerank_calls + 1
       ELSE /\ mode = "ok"
            /\ score = _reranker.score
            /\ UNCHANGED <<_reranker, all_results, top_results, rerank_calls>>
    /\ r_pc' = "return"
    /\ UNCHANGED <<deeper_results, adaptive_results, skip_general_search,
                   needs_deepening, current_k, search_depth_level,
                   expanded_queries, adaptive_queries, round, pending>>
    /\ UNCHANGED <<round_base, round_returned, round_calls, shard_queries, searched,
                   relevance_checks, adaptive_rounds, r_error>>
    /\ UNCHANGED <<inputVars, callerVars>>
    /\ ref' = IF adaptive_results # <<>>
               THEN [ref EXCEPT !.all_results =
                                    deduplicate_results(@ \o ref.adaptive_results),
                                !.top_results =
                                    rerank_results(
                                        [mode |-> mode, score |-> score],
                                        deduplicate_results(
                                            ref.all_results \o ref.adaptive_results),
                                        AdaptiveRerankTopK)]
               ELSE ref
    /\ UNCHANGED <<rerankVars, llmVars, cacheVars, fnVars, streamVars, coreVars>>

\* {doc.metadata['filename'] for doc, _ in top_results
\*                           if 'filename' in doc.metadata}
source_filenames(results) ==
    {results[i].doc.filename : i \in 1..Len(results)} \ {NoFile}

\* query_docs after retrieve_context (lines 893-1043): the not-found return,
\* the return of the answer stream, or the except branch of the function.
\* language is the argument of query_docs.
QueryDocsReturn(language) ==
    /\ r_pc = "return"
    /\ caller = "chat"
    /\ IF r_error
       THEN /\ out' = [kind |-> "error", requested |-> language,
                       message_language |-> "en", sources |-> {}]
            /\ r_pc' = "done"
       ELSE IF top_results = <<>>
       THEN /\ out' = [kind |-> "not_found", requested |-> language,
                       message_language |-> IF language = "hi" THEN "hi" ELSE "en",
                       sources |-> {}]
            /\ r_pc' = "done"
       ELSE /\ out' = [kind |-> "answer_stream", requested |-> language,
                       message_language |-> language,
                       sources |-> source_filenames(top_results)]
            /\ r_pc' = "stream"
    /\ UNCHANGED <<all_results, deeper_results, adaptive_results, top_results,
                   skip_general_search, needs_deepening, current_k,
                   search_depth_level, expanded_queries, adaptive_queries,
                   round, pending>>
    /\ UNCHANGED <<answer_llm_calls, cache_written, sorted_contexts>>
    /\ UNCHANGED <<inputVars, histVars>>
    /\ UNCHANGED <<ref, _reranker, rerankVars, llmVars, cacheVars, fnVars, streamVars, coreVars>>

\* app.py handle_message, Kira fast path (lines 478-513): the context and
\* the sources are taken from the results and the answer stream is created.
KiraFastReturn ==
    /\ r_pc = "return"
    /\ caller = "kira_fast"
    /\ out' = [kind |-> "answer_stream", requested |-> "en",
               message_language |-> "en",
               sources |-> source_filenames(top_results)]
    /\ r_pc' = "stream"
    /\ UNCHANGED <<all_results, deeper_results, adaptive_results, top_results,
                   skip_general_search, needs_deepening, current_k,
                   search_depth_level, expanded_queries, adaptive_queries,
                   round, pending>>
    /\ UNCHANGED <<answer_llm_calls, cache_written, sorted_contexts>>
    /\ UNCHANGED <<inputVars, histVars>>
    /\ UNCHANGED <<ref, _reranker, rerankVars, llmVars, cacheVars, fnVars, streamVars, coreVars>>

\* The returned stream is read to its end: core.safe_llm_stream runs the
\* LLM; response_wrapper of query_docs then calls core.update_cache for
\* language 'en'.
ConsumeStream ==
    /\ r_pc = "stream"
    /\ answer_llm_calls' = answer_llm_calls + 1
    /\ cache_written' = (caller = "chat" /\ out.requested = "en")
    /\ r_pc' = "done"
    /\ UNCHANGED <<all_results, deeper_results, adaptive_results, top_results,
                   skip_general_search, needs_deepening, current_k,
                   search_depth_level, expanded_queries, adaptive_queries,
                   round, pending>>
    /\ UNCHANGED <<out, sorted_contexts>>
    /\ UNCHANGED <<inputVars, histVars>>
    /\ UNCHANGED <<ref, _reranker, rerankVars, llmVars, cacheVars, fnVars, streamVars, coreVars>>

\* app.py handle_generate_summary (lines 759-797): the results that carry a
\* filename are collected with their score and ordered by it, highest first.
SummaryCollect ==
    /\ r_pc = "return"
    /\ caller = "summary"
    /\ LET has_filename(c) == c.doc.filename # NoFile
           context_from_other_docs == SelectSeq(top_results, has_filename)
       IN  sorted_contexts' = Take(SortByScoreDesc(context_from_other_docs), 10)
    /\ r_pc' = "done"
    /\ UNCHANGED <<all_results, deeper_results, adaptive_results, top_results,
                   skip_general_search, needs_deepening, current_k,
                   search_depth_level, expanded_queries, adaptive_queries,
                   round, pending>>
    /\ UNCHANGED <<out, answer_llm_calls, cache_written>>
    /\ UNCHANGED <<inputVars, histVars>>
    /\ UNCHANGED <<ref, _reranker, rerankVars, llmVars, cacheVars, fnVars, streamVars, coreVars>>

RetrNext ==
    \/ ExactSectionLookup
    \/ StructuredIndexRetrieval
    \/ \E s \in Shards : ShardComplete(s)
    \/ JoinFiltered
    \/ PrimarySearch
    \/ JoinPrimary
    \/ CheckDeepening
    \/ JoinDeepening
    \/ \E n \in 0..MaxExpansions : QueryExpansion(n)
    \/ JoinExpansion
    \/ \E mode \in RerankerModes, score \in RerankerScores \cup {NoReranker.score} :
           DedupAndRerank(mode, score)
    \/ \E nkw \in 0..MaxKeywords : \E m \in 0..nkw : \E long_query \in BOOLEAN :
           RelevanceCheck(nkw, m, long_query)
    \/ JoinAdaptive
    \/ \E mode \in RerankerModes, score \in RerankerScores \cup {NoReranker.score} :
           AdaptiveMerge(mode, score)
    \/ \E language \in Languages : QueryDocsReturn(language)
    \/ KiraFastReturn
    \/ ConsumeStream
    \/ SummaryCollect

-----------------------------------------------------------------------------
(* Functions of retrieval.py called on their own                           *)

FnIdle ==
    /\ fn_pc = "idle"
    /\ fn_name = "none"
    /\ fn_args = <<>>
    /\ fn_out = <<>>

\* The other variables stay as they are at rest.
FnFrame == UNCHANGED <<rerankVars, llmVars, cacheVars, retrVars, streamVars, coreVars>>

MaxTokens == 2       \* longest answer or context text, in tokens

\* list(a set), in an order the set does not fix
SeqOf(S) ==
    LET RECURSIVE go(_, _)
        go(rest, acc) ==
            IF rest = {} THEN acc
            ELSE LET x == CHOOSE y \in rest : TRUE
                 IN  go(rest \ {x}, Append(acc, x))
    IN  go(S, <<>>)

(* verify_legal_citations.  A text is a sequence of tokens.  A token is a  *)
(* plain word or a string that one of the three citation patterns matches; *)
(* a citation is written as in the source ("Section 302") or in another    *)
(* casing ("SECTION 302"), which re.IGNORECASE matches as well.            *)
Word == [kind |-> "word", body |-> "the", upper |-> FALSE]
Citation(kind, body, upper) == [kind |-> kind, body |-> body, upper |-> upper]
Tokens ==
    { Word,
      Citation("Section", "302", FALSE), Citation("Section", "302", TRUE),
      Citation("Section", "304(2)", FALSE),
      Citation("Article", "21", FALSE),
      Citation("Chapter", "4", FALSE) }
Texts == SeqsUpTo(Tokens, MaxTokens)

\* set(re.findall(pattern, text, re.IGNORECASE)) for the pattern of a kind
re_findall(kind, text) == {text[i] : i \in {j \in 1..Len(text) : text[j].kind = kind}}

\* str.lower() on a citation
lower(citation) == [citation EXCEPT !.upper = FALSE]

\* The citations of the response that no citation of the context equals
\* when both are lowered.
hallucinated(response_citations, context_citations) ==
    {c \in response_citations :
        ~ \E ctx \in context_citations : lower(c) = lower(ctx)}

\* verify_legal_citations that compares the strings as they are
verify_legal_citations_case_sensitive(response, context) ==
    LET missing(kind) == re_findall(kind, response) \ re_findall(kind, context)
        violations == SeqOf(missing("Article")) \o SeqOf(missing("Section"))
                          \o SeqOf(missing("Chapter"))
    IN  [valid |-> violations = <<>>,
         violations |-> violations,
         warning |-> IF violations = <<>> THEN "" ELSE "WARNING"]

\* retrieval.py verify_legal_citations
verify_legal_citations(response, context) ==
    LET missing(kind) == hallucinated(re_findall(kind, response),
                                      re_findall(kind, context))
        violations == SeqOf(missing("Article")) \o SeqOf(missing("Section"))
                          \o SeqOf(missing("Chapter"))
        is_valid == Len(violations) = 0
    IN  [valid |-> is_valid,
         violations |-> violations,
         warning |-> IF ~is_valid THEN "WARNING" ELSE ""]

InitVerify ==
    /\ fn_pc = "call"
    /\ fn_name = "verify_legal_citations"
    /\ fn_args \in [response : Texts, context : Texts]
    /\ fn_out = <<>>

CallVerify ==
    /\ fn_pc = "call"
    /\ fn_name = "verify_legal_citations"
    /\ fn_out' = verify_legal_citations(fn_args.response, fn_args.context)
    /\ fn_pc' = "done"
    /\ UNCHANGED <<fn_name, fn_args>>
    /\ FnFrame

(* deduplicate_results on its own: the function is applied to the input    *)
(* and then to its own output.                                             *)
InitDedup ==
    /\ fn_pc = "call"
    /\ fn_name = "deduplicate_results"
    /\ fn_args \in [results : SeqsUpTo(RrCands, MaxLen)]
    /\ fn_out = <<>>

CallDedup ==
    /\ fn_pc = "call"
    /\ fn_name = "deduplicate_results"
    /\ fn_out' = [unique_results |-> deduplicate_results(fn_args.results),
                  again |-> deduplicate_results(deduplicate_results(fn_args.results))]
    /\ fn_pc' = "done"
    /\ UNCHANGED <<fn_name, fn_args>>
    /\ FnFrame

(* determine_chunk_count.  Confidence is in hundredths.                    *)
ChunkQueryTypes == {"simple", "complex", "comparative", "procedural", "other"}
Confidences == {0, 50, 80, 81, 100}
NoTag == "<none>"
CategoryTags == {NoTag, "ipc"}

\* base_counts.get(type, 4)
base_counts(type) ==
    CASE type = "simple" -> 3
      [] type = "complex" -> 6
      [] type = "comparative" -> 8
      [] type = "procedural" -> 5
      [] OTHER -> 4

\* determine_chunk_count without the max(3, ...) under a category tag
determine_chunk_count_no_floor(qc, category_tag) ==
    LET base == base_counts(qc.type)
        adjusted == IF qc.confidence > 80 THEN base + 1 ELSE base
        focused == IF category_tag # NoTag THEN adjusted - 1 ELSE adjusted
    IN  Min(focused, 10)

\* retrieval.py determine_chunk_count
determine_chunk_count(qc, category_tag) ==
    LET base == base_counts(qc.type)
        adjusted == IF qc.confidence > 80 THEN base + 1 ELSE base
        focused == IF category_tag # NoTag THEN Max(3, adjusted - 1) ELSE adjusted
    IN  Min(focused, 10)

InitChunkCount ==
    /\ fn_pc = "call"
    /\ fn_name = "determine_chunk_count"
    /\ fn_args \in [query_complexity : [type : ChunkQueryTypes, confidence : Confidences],
                    category_tag : CategoryTags]
    /\ fn_out = <<>>

CallChunkCount ==
    /\ fn_pc = "call"
    /\ fn_name = "determine_chunk_count"
    /\ fn_out' = [chunk_count |-> determine_chunk_count(fn_args.query_complexity,
                                                        fn_args.category_tag)]
    /\ fn_pc' = "done"
    /\ UNCHANGED <<fn_name, fn_args>>
    /\ FnFrame

(* generate_query_expansions and the loop of retrieve_context that searches *)
(* with what it returns.  A phrase is a sequence of words; a line of the   *)
(* LLM's output is a sequence of words and blanks.                         *)
Blank == " "
LlmLines == {<<Blank>>, <<"murder">>, <<Blank, "bns", "103", Blank>>}
MaxLines == 4
\* core.safe_llm_invoke raises, or returns a response of some lines
LlmOutcomes ==
    {[raises |-> TRUE, response |-> <<>>]}
        \cup {[raises |-> FALSE, response |-> r] : r \in SeqsUpTo(LlmLines, MaxLines)}
ExpansionQueries ==
    { <<"Theft", "and", "robbery">>,
      <<"theft", "vs", "robbery", "versus", "fraud">>,
      <<"why", "is", "Theft", "punished", "under", "BNS">>,
      <<"explain", "theft">>,
      <<"and", "theft">> }
ExpansionTypes == {"simple", "complex", "comparative", "procedural"}
KeywordLists ==
    { <<>>,
      <<(<<"section", "302">>)>>,
      <<(<<"section", "302">>), (<<"article", "21">>)>>,
      <<(<<"section", "302">>), (<<"article", "21">>), (<<"act", "45">>)>> }

\* str.strip() of one line
RECURSIVE lstrip(_)
lstrip(line) ==
    IF line # <<>> /\ Head(line) = Blank THEN lstrip(Tail(line)) ELSE line

RECURSIVE rstrip(_)
rstrip(line) ==
    IF line # <<>> /\ line[Len(line)] = Blank
    THEN rstrip(SubSeq(line, 1, Len(line) - 1))
    ELSE line

strip(line) == rstrip(lstrip(line))

\* [q.strip() for q in response.strip().split('\n') if q.strip()]
RECURSIVE stripped_lines(_)
stripped_lines(response) ==
    IF response = <<>> THEN <<>>
    ELSE IF strip(Head(response)) # <<>>
         THEN <<strip(Head(response))>> \o stripped_lines(Tail(response))
         ELSE stripped_lines(Tail(response))

\* str.lower() of one word
lower_word(w) ==
    CASE w = "Theft" -> "theft"
      [] w = "BNS" -> "bns"
      [] OTHER -> w

query_lower(query) == [i \in 1..Len(query) |-> lower_word(query[i])]

\* ' and ' in query_lower: the separator with a character on each side
contains_word(words, seps) == \E i \in 2..(Len(words) - 1) : words[i] \in seps

\* str.split(' and ') and re.split(r'\s+(?:vs|versus)\s+', ...): matches are
\* taken left to right and do not overlap
RECURSIVE split_from(_, _, _, _)
split_from(words, seps, i, cur) ==
    IF i > Len(words) THEN <<cur>>
    ELSE IF words[i] \in seps /\ i > 1 /\ i < Len(words) /\ cur # <<>>
         THEN <<cur>> \o split_from(words, seps, i + 1, <<>>)
         ELSE split_from(words, seps, i + 1, Append(cur, words[i]))

split(words, seps) == split_from(words, seps, 1, <<>>)

\* the except branch of generate_query_expansions
heuristic_expansions(query, qc) ==
    LET ql == query_lower(query)
        comparative ==
            IF qc.type = "comparative"
            THEN IF contains_word(ql, {"and"}) THEN Take(split(ql, {"and"}), 2)
                 ELSE IF contains_word(ql, {"vs"}) THEN Take(split(ql, {"vs", "versus"}), 2)
                 ELSE <<>>
            ELSE <<>>
        mid == Len(query) \div 2
        complex ==
            IF qc.type = "complex" /\ Len(query) > 5
            THEN <<SubSeq(query, 1, mid), SubSeq(query, mid + 1, Len(query))>>
            ELSE <<>>
        keywords == Take(qc.keywords, 2)
    IN  Take(comparative \o complex \o keywords, 3)

\* generate_query_expansions returning every non-empty line of the LLM
generate_query_expansions_uncapped(query, qc, llm) ==
    IF ~llm.raises /\ stripped_lines(llm.response) # <<>>
    THEN [raised |-> FALSE, expansions |-> stripped_lines(llm.response)]
    ELSE [raised |-> FALSE, expansions |-> heuristic_expansions(query, qc)]

\* retrieval.py generate_query_expansions; llm is what core.safe_llm_invoke
\* does: it raises or returns lines
generate_query_expansions(query, qc, llm) ==
    IF ~llm.raises /\ stripped_lines(llm.response) # <<>>
    THEN [raised |-> FALSE, expansions |-> Take(stripped_lines(llm.response), 3)]
    ELSE [raised |-> FALSE, expansions |-> heuristic_expansions(query, qc)]

InitExpansions ==
    /\ fn_pc = "call"
    /\ fn_name = "generate_query_expansions"
    /\ fn_args \in [query : ExpansionQueries,
                    query_complexity : [type : ExpansionTypes, keywords : KeywordLists],
                    llm : LlmOutcomes]
    /\ fn_out = <<>>

\* the call at retrieval.py 702 and the for loop over what it returned: one
\* search round per expansion, with that expansion as its phrase
CallExpansions ==
    /\ fn_pc = "call"
    /\ fn_name = "generate_query_expansions"
    /\ LET r == generate_query_expansions(fn_args.query, fn_args.query_complexity,
                                          fn_args.llm)
       IN  fn_out' = [raised |-> r.raised,
                      expanded_queries |-> r.expansions,
                      searches |-> IF r.raised THEN <<>>
                                   ELSE [i \in 1..Len(r.expansions) |-> r.expansions[i]]]
    /\ fn_pc' = "done"
    /\ UNCHANGED <<fn_name, fn_args>>
    /\ FnFrame

(* analyze_query_complexity, and test_query of test_smart_retrieval.py,    *)
(* which passes its result to determine_chunk_count.  A query text is what *)
(* the function reads of it: the indicator phrases that occur in its lower *)
(* case form, the number of words query.split() gives, and the matches of  *)
(* the legal-term pattern.  Confidence is in hundredths.                   *)
complex_indicators ==
    {"explain", "analyze", "compare", "contrast", "difference", "between",
     "why", "how does", "what are the implications", "discuss", "elaborate",
     "relationship", "impact", "effect", "consequence", "versus", "vs"}
procedural_indicators ==
    {"procedure", "process", "steps", "how to", "method", "way to",
     "file", "apply", "register", "obtain", "submit"}
comparative_indicators ==
    {"compare", "contrast", "difference", "between", "versus", "vs",
     "similar", "different", "both", "either"}
simple_indicators ==
    {"what is", "define", "who is", "when", "where", "which section",
     "section", "article", "clause", "punishment", "penalty"}

\* the indicator phrases the query texts are made of, with their lengths in words
QueryVocabulary ==
    {"compare", "contrast", "explain", "similar", "procedure", "what is", "section"}
PhraseWords(ind) == IF ind = "what is" THEN 2 ELSE 1
WordCounts == {2, 5, 9, 10, 12, 13, 15, 16, 40}
LegalTermLists == {<<>>, <<"section 302">>}

RECURSIVE WordsIn(_)
WordsIn(S) ==
    IF S = {} THEN 0
    ELSE LET ind == CHOOSE x \in S : TRUE
         IN  PhraseWords(ind) + WordsIn(S \ {ind})

\* a text has room for its phrases, and a match of "section \d+" holds "section"
QueryTexts ==
    {q \in [contains : SUBSET QueryVocabulary, word_count : WordCounts,
            legal_terms : LegalTermLists] :
        /\ WordsIn(q.contains) + Len(q.legal_terms) <= q.word_count
        /\ q.legal_terms # <<>> => "section" \in q.contains}

\* sum(1 for ind in indicators if ind in query_lower)
indicator_count(indicators, query) == Cardinality(indicators \cap query.contains)

\* the cascade with the complex rule tried before the comparative one
analyze_query_complexity_complex_first(query) ==
    LET complex_count == indicator_count(complex_indicators, query)
        procedural_count == indicator_count(procedural_indicators, query)
        comparative_count == indicator_count(comparative_indicators, query)
        simple_count == indicator_count(simple_indicators, query)
        word_count == query.word_count
        typed ==
            IF complex_count >= 2 \/ word_count > 15
            THEN [type |-> "complex",
                  confidence |-> Min(90, 50 + complex_count * 10 + (word_count - 10) * 2)]
            ELSE IF comparative_count >= 2 \/ "compare" \in query.contains
            THEN [type |-> "comparative",
                  confidence |-> Min(90, 60 + comparative_count * 10)]
            ELSE IF procedural_count >= 1
            THEN [type |-> "procedural",
                  confidence |-> Min(90, 60 + procedural_count * 15)]
            ELSE IF simple_count >= 1 /\ word_count < 10
            THEN [type |-> "simple",
                  confidence |-> Min(90, 70 + simple_count * 10)]
            ELSE IF word_count > 12
            THEN [type |-> "complex", confidence |-> 60]
            ELSE [type |-> "simple", confidence |-> 50]
    IN  [type |-> typed.type, confidence |-> typed.confidence,
         keywords |-> query.legal_terms, word_count |-> word_count]

\* retrieval.py analyze_query_complexity
analyze_query_complexity(query) ==
    LET complex_count == indicator_count(complex_indicators, query)
        procedural_count == indicator_count(procedural_indicators, query)
        comparative_count == indicator_count(comparative_indicators, query)
        simple_count == indicator_count(simple_indicators, query)
        word_count == query.word_count
        typed ==
            IF comparative_count >= 2 \/ "compare" \in query.contains
            THEN [type |-> "comparative",
                  confidence |-> Min(90, 60 + comparative_count * 10)]
            ELSE IF complex_count >= 2 \/ word_count > 15
            THEN [type |-> "complex",
                  confidence |-> Min(90, 50 + complex_count * 10 + (word_count - 10) * 2)]
            ELSE IF procedural_count >= 1
            THEN [type |-> "procedural",
                  confidence |-> Min(90, 60 + procedural_count * 15)]
            ELSE IF simple_count >= 1 /\ word_count < 10
            THEN [type |-> "simple",
                  confidence |-> Min(90, 70 + simple_count * 10)]
            ELSE IF word_count > 12
            THEN [type |-> "complex", confidence |-> 60]
            ELSE [type |-> "simple", confidence |-> 50]
    IN  [type |-> typed.type, confidence |-> typed.confidence,
         keywords |-> query.legal_terms, word_count |-> word_count]

InitTestQuery ==
    /\ fn_pc = "call"
    /\ fn_name = "test_query"
    /\ fn_args \in [query : QueryTexts, tag : CategoryTags]
    /\ fn_out = <<>>

\* test_smart_retrieval.py test_query: analyse, then count the chunks
CallTestQuery ==
    /\ fn_pc = "call"
    /\ fn_name = "test_query"
    /\ LET complexity == analyze_query_complexity(fn_args.query)
       IN  fn_out' = [complexity |-> complexity,
                      chunks |-> determine_chunk_count(complexity, fn_args.tag)]
    /\ fn_pc' = "done"
    /\ UNCHANGED <<fn_name, fn_args>>
    /\ FnFrame

(* check_context_relevance called on its own.  The keywords the patterns   *)
(* can extract are numbered; a query is the set of them it holds, a        *)
(* context the set of them that occur in it.                               *)
RelevanceKeywords == 1..MaxKeywords

InitRelevance ==
    /\ fn_pc = "call"
    /\ fn_name = "check_context_relevance"
    /\ fn_args \in [query_keywords : SUBSET RelevanceKeywords,
                    in_context : SUBSET RelevanceKeywords,
                    query_complexity : [type : ChunkQueryTypes]]
    /\ fn_out = <<>>

CallRelevance ==
    /\ fn_pc = "call"
    /\ fn_name = "check_context_relevance"
    /\ fn_out' = check_context_relevance(fn_args.query_keywords, fn_args.in_context,
                                         fn_args.query_complexity)
    /\ fn_pc' = "done"
    /\ UNCHANGED <<fn_name, fn_args>>
    /\ FnFrame

(* smart_retrieval.py QueryRouter.route_query.  A query is the sequence of *)
(* Section/Article references in its text, in text order; uploads_db.json  *)
(* is the sequence of its documents in the order of the "documents"        *)
(* dictionary, each with the keys of its "sections".                       *)
QueryIds == {"21", "304a"}
SectionKeys == {"21", "304A"}
\* match.group(1).strip().upper()
upper(id) == IF id = "304a" THEN "304A" ELSE id
References == [type : {"section", "article"}, id : QueryIds]
RouterQueries ==
    {<<>>} \cup {<<r>> : r \in References} \cup {<<r1, r2>> : r1, r2 \in References}
Documents ==
    {[filename |-> "BNS.pdf", sections |-> S] : S \in SUBSET SectionKeys}
        \cup {[filename |-> "IPC.pdf", sections |-> {"21"}]}
UploadsDbs == {<<>>} \cup {<<d>> : d \in Documents} \cup {<<d1, d2>> : d1, d2 \in Documents}
\* what self.uploads_db holds from the construction of the router
LoadedDbs == {<<>>, <<[filename |-> "BNS.pdf", sections |-> SectionKeys]>>}
ContextDocs == {<<>>, <<[section_id |-> "304A", relevance_score |-> 4200]>>}
NotFoundResponse == "I couldn't find relevant information in the uploaded documents."

\* detect_section_query: re.search with the Section pattern, then with the
\* Article pattern; the first match of the first pattern that matches
detect_section_query(query) ==
    LET of_type(t) == {i \in 1..Len(query) : query[i].type = t}
        first(S) == CHOOSE i \in S : \A j \in S : i <= j
    IN  IF of_type("section") # {}
        THEN [matched |-> TRUE, type |-> "section",
              id |-> upper(query[first(of_type("section"))].id)]
        ELSE IF of_type("article") # {}
        THEN [matched |-> TRUE, type |-> "article",
              id |-> upper(query[first(of_type("article"))].id)]
        ELSE [matched |-> FALSE, type |-> "none", id |-> "none"]

\* fast_lookup: the first document, in dictionary order, with the key
fast_lookup(uploads_db, section_info) ==
    LET hits == {i \in 1..Len(uploads_db) : section_info.id \in uploads_db[i].sections}
    IN  IF hits = {}
        THEN [found |-> FALSE, section_id |-> section_info.id, filename |-> "none"]
        ELSE LET i == CHOOSE i \in hits : \A j \in hits : i <= j
             IN  [found |-> TRUE, section_id |-> section_info.id,
                  filename |-> uploads_db[i].filename]

\* route_query: reload_db, detect_section_query, fast_lookup, and the deep
\* path (expand_query's LLM call, retrieve_context, generate_grounded_answer)
route_query(loaded, file, query, context_docs) ==
    LET uploads_db == file
        section_info == detect_section_query(query)
        lookup_result == fast_lookup(uploads_db, section_info)
    IN  IF section_info.matched /\ lookup_result.found
        THEN [path |-> "fast", response |-> "fast response", sources |-> <<lookup_result>>,
              vector_searches |-> 0, llm_calls |-> 0]
        ELSE IF context_docs = <<>>
        THEN [path |-> "deep", response |-> NotFoundResponse, sources |-> <<>>,
              vector_searches |-> 1, llm_calls |-> 1]
        ELSE [path |-> "deep", response |-> "grounded answer", sources |-> context_docs,
              vector_searches |-> 1, llm_calls |-> 2]

InitRoute ==
    /\ fn_pc = "call"
    /\ fn_name = "route_query"
    /\ fn_args \in [loaded : LoadedDbs, file : UploadsDbs, query : RouterQueries,
                    context_docs : ContextDocs]
    /\ fn_out = <<>>

CallRoute ==
    /\ fn_pc = "call"
    /\ fn_name = "route_query"
    /\ fn_out' = route_query(fn_args.loaded, fn_args.file, fn_args.query,
                             fn_args.context_docs)
    /\ fn_pc' = "done"
    /\ UNCHANGED <<fn_name, fn_args>>
    /\ FnFrame

FnInit == InitVerify \/ InitDedup \/ InitChunkCount \/ InitExpansions \/ InitTestQuery
              \/ InitRelevance \/ InitRoute

FnNext == CallVerify \/ CallDedup \/ CallChunkCount \/ CallExpansions \/ CallTestQuery
              \/ CallRelevance \/ CallRoute

-----------------------------------------------------------------------------
(* handle_stop and handle_message (app.py) for the events of one session,  *)
(* and the stream handle_message reads: query_docs' response_wrapper       *)
(* (retrieval.py), or core.safe_llm_stream itself on Kira's fast track.    *)
(* A chunk of an answer is a token of the citation model above.            *)

Handlers == {"m1", "m2"}      \* threads running handle_message
Sid == 1                      \* request.sid
Period == [kind |-> "word", body |-> ".", upper |-> FALSE]
Section302 == Citation("Section", "302", FALSE)
Section304 == Citation("Section", "304(2)", FALSE)
StreamContext == <<Section302>>
StreamSources == <<"BNS.pdf">>
\* What the LLM generates for the prompt, chunk by chunk.
Answers ==
    { <<>>,
      <<Section302, Period>>,
      <<Section304, Section302>>,
      <<Period, Section304>> }
\* persona and language of a send_message event
MessageInputs == {<<"default", "en">>, <<"default", "hi">>, <<"kira", "en">>}

HmIdle ==
    [pc |-> "idle", persona |-> "default", language |-> "en", wrapped |-> FALSE,
     llm_chunks |-> <<>>, pos |-> 0, exhausted |-> FALSE,
     full_answer_chunks |-> <<>>, yielded |-> <<>>, verification |-> "none",
     full_response |-> <<>>, buffer |-> <<>>, emitted |-> <<>>,
     stop_handled |-> FALSE, late_chunk |-> FALSE]

StreamIdle ==
    /\ active_requests = [s \in {} |-> TRUE]
    /\ hm = [h \in Handlers |-> HmIdle]
    /\ stream_cache = <<>>

StreamFrame == UNCHANGED <<rerankVars, llmVars, cacheVars, retrVars, fnVars, coreVars>>

\* active_requests.get(request.sid, True)
is_active == IF Sid \in DOMAIN active_requests THEN active_requests[Sid] ELSE TRUE

\* app.py handle_stop.  The handlers whose answer is streaming at this
\* moment are marked.
handle_stop ==
    /\ active_requests' =
           IF Sid \in DOMAIN active_requests
           THEN [active_requests EXCEPT ![Sid] = FALSE]
           ELSE active_requests
    /\ hm' = [h \in Handlers |->
                 IF hm[h].pc = "streaming"
                 THEN [hm[h] EXCEPT !.stop_handled = TRUE]
                 ELSE hm[h]]
    /\ UNCHANGED stream_cache
    /\ StreamFrame

\* app.py handle_message up to "if not query": the session is marked active;
\* without a query an error is emitted and the handler returns.
handle_message(h, data_persona, data_language, has_query) ==
    /\ hm[h].pc = "idle"
    /\ active_requests' = [s \in DOMAIN active_requests \cup {Sid} |->
                              IF s = Sid THEN TRUE ELSE active_requests[s]]
    /\ hm' = IF has_query
             THEN [hm EXCEPT ![h] = [HmIdle EXCEPT !.pc = "started",
                                                   !.persona = data_persona,
                                                   !.language = data_language]]
             ELSE hm
    /\ UNCHANGED stream_cache
    /\ StreamFrame

\* app.py handle_message from "try:" to "emit('sources', sources)": Kira's
\* fast track emits the opener and takes core.safe_llm_stream; when it
\* fails, and for every other persona, the stream is query_docs'
\* response_wrapper.
get_answer_stream(h, answer, kira_failed) ==
    /\ hm[h].pc = "started"
    /\ LET fast == hm[h].persona = "kira" /\ ~kira_failed
       IN  hm' = [hm EXCEPT ![h] =
                     [@ EXCEPT !.pc = "streaming",
                               !.wrapped = ~fast,
                               !.llm_chunks = answer,
                               !.emitted = IF fast
                                           THEN <<[text |-> <<Word>>, cleaned |-> TRUE]>>
                                           ELSE <<>>]]
    /\ UNCHANGED <<active_requests, stream_cache>>
    /\ StreamFrame

\* emit('response_chunk', ...) by a handler: the chunk is late when a stop
\* was handled while this handler's answer was streaming.
emit_response_chunk(r, text, cleaned) ==
    [r EXCEPT !.emitted = Append(@, [text |-> text, cleaned |-> cleaned]),
              !.late_chunk = @ \/ r.stop_handled]

\* The body of handle_message's loop after the interruption check.
loop_body(r, chunk) ==
    LET r1 == [r EXCEPT !.full_response = Append(@, chunk)]
    IN  IF r.persona = "kira"
        THEN IF chunk = Period
             THEN [emit_response_chunk(r1, Append(r.buffer, chunk), TRUE)
                      EXCEPT !.buffer = <<>>]
             ELSE [r1 EXCEPT !.buffer = Append(@, chunk)]
        ELSE emit_response_chunk(r1, <<chunk>>, FALSE)

\* handle_message after its loop: Kira's buffer is emitted when it is not
\* empty, then response_complete.
after_loop(r) ==
    LET r1 == IF r.persona = "kira" /\ r.buffer # <<>>
              THEN emit_response_chunk(r, r.buffer, TRUE)
              ELSE r
    IN  [r1 EXCEPT !.pc = "complete"]

\* response_wrapper closed at a yield that saves what it has so far
response_wrapper_close_saving(r, cache) ==
    IF r.wrapped /\ r.language = "en"
    THEN <<r.full_answer_chunks, StreamSources>>
    ELSE cache

\* response_wrapper when its consumer leaves the loop: the generator is
\* closed at its yield and the code after its loop does not run.
response_wrapper_close(r, cache) == cache

\* response_wrapper after its loop: core.update_cache for language 'en'
response_wrapper_finish(r, cache) ==
    IF r.wrapped /\ r.language = "en"
    THEN <<r.full_answer_chunks, StreamSources>>
    ELSE cache

\* One iteration of "for chunk in answer_stream": the stream yields its next
\* chunk, and the loop breaks or emits; or the stream is exhausted, which
\* for response_wrapper runs the citation check and the cache update.
stream_next(h) ==
    /\ hm[h].pc = "streaming"
    /\ LET r == hm[h]
       IN  IF r.pos < Len(r.llm_chunks)
           THEN LET chunk == r.llm_chunks[r.pos + 1]
                    yielded == [r EXCEPT !.pos = @ + 1,
                                         !.full_answer_chunks =
                                             IF r.wrapped THEN Append(@, chunk) ELSE @,
                                         !.yielded = Append(@, chunk)]
                IN  IF ~is_active
                    THEN /\ hm' = [hm EXCEPT ![h] = after_loop(yielded)]
                         /\ stream_cache' = response_wrapper_close(yielded, stream_cache)
                    ELSE /\ hm' = [hm EXCEPT ![h] = loop_body(yielded, chunk)]
                         /\ UNCHANGED stream_cache
           ELSE LET checked == [r EXCEPT !.exhausted = TRUE,
                                         !.verification =
                                             IF ~r.wrapped THEN "none"
                                             ELSE IF verify_legal_citations(
                                                         r.full_answer_chunks,
                                                         StreamContext).valid
                                                  THEN "passed" ELSE "failed"]
                IN  /\ hm' = [hm EXCEPT ![h] = after_loop(checked)]
                    /\ stream_cache' = response_wrapper_finish(checked, stream_cache)
    /\ UNCHANGED active_requests
    /\ StreamFrame

\* handle_message returns; its thread can take the session's next event.
handle_message_return(h) ==
    /\ hm[h].pc = "complete"
    /\ hm' = [hm EXCEPT ![h] = HmIdle]
    /\ UNCHANGED <<active_requests, stream_cache>>
    /\ StreamFrame

StreamNext ==
    \/ handle_stop
    \/ \E h \in Handlers :
        \/ \E inp \in MessageInputs, has_query \in BOOLEAN :
               handle_message(h, inp[1], inp[2], has_query)
        \/ \E answer \in Answers, kira_failed \in BOOLEAN :
               get_answer_stream(h, answer, kira_failed)
        \/ stream_next(h)
        \/ handle_message_return(h)

-----------------------------------------------------------------------------
(* core.py: get_dbs called by several threads before the shards exist.     *)
(* A db is the shard its directory and collection belong to, and whether   *)
(* it came from the fallback of the except branch.                         *)

NumShardCallers == 2     \* threads calling get_dbs
ShardCallers == 1..NumShardCallers

GetDbsStart == [pc |-> "start", i |-> 0, dbs |-> <<>>]

ShardsIdle ==
    /\ _db_shards = <<>>
    /\ get_dbs_calls = [t \in ShardCallers |-> GetDbsStart]

ShardsFrame ==
    UNCHANGED <<rerankVars, llmVars, cacheVars, retrVars, fnVars, streamVars, persistVars>>

\* "if not _db_shards:" with the list empty: the loop is entered
get_dbs_enter(t) ==
    /\ get_dbs_calls[t].pc = "start"
    /\ _db_shards = <<>>
    /\ get_dbs_calls' = [get_dbs_calls EXCEPT ![t].pc = "loop"]
    /\ UNCHANGED _db_shards
    /\ ShardsFrame

\* "if not _db_shards:" with an element in the list: "return _db_shards"
get_dbs_skip(t) ==
    /\ get_dbs_calls[t].pc = "start"
    /\ _db_shards # <<>>
    /\ get_dbs_calls' = [get_dbs_calls EXCEPT ![t].pc = "returned", ![t].dbs = _db_shards]
    /\ UNCHANGED _db_shards
    /\ ShardsFrame

\* one pass of "for i in range(NUM_SHARDS)": the db of shard i is appended,
\* by the try branch or by its fallback
get_dbs_append(t, fallback) ==
    /\ get_dbs_calls[t].pc = "loop"
    /\ get_dbs_calls[t].i < NUM_SHARDS
    /\ _db_shards' = Append(_db_shards, [shard |-> get_dbs_calls[t].i, fallback |-> fallback])
    /\ get_dbs_calls' = [get_dbs_calls EXCEPT ![t].i = @ + 1]
    /\ ShardsFrame

\* the loop is over: "return _db_shards"
get_dbs_return(t) ==
    /\ get_dbs_calls[t].pc = "loop"
    /\ get_dbs_calls[t].i = NUM_SHARDS
    /\ get_dbs_calls' = [get_dbs_calls EXCEPT ![t].pc = "returned", ![t].dbs = _db_shards]
    /\ UNCHANGED _db_shards
    /\ ShardsFrame

ShardsNext ==
    \E t \in ShardCallers :
        \/ get_dbs_enter(t)
        \/ get_dbs_skip(t)
        \/ \E fallback \in BOOLEAN : get_dbs_append(t, fallback)
        \/ get_dbs_return(t)

-----------------------------------------------------------------------------
(* core.py: the response and embedding caches, their files and cache_lock. *)
(* A cache is the set of its keys.  Worker threads call update_cache,      *)
(* clear_cache, CachedEmbeddings.embed_documents (through embed_query) and *)
(* get_similar_cache_entries; the thread started by embed_documents runs   *)
(* save_persistent_caches.                                                 *)

CoreQueries == {"q1", "q2"}
Workers == {"w1", "w2"}
SaveThread == "save thread"
CoreThreads == Workers \cup {SaveThread}
MaxCoreOps == 1          \* calls per worker thread
Unlocked == "unlocked"

AtRest == [pc |-> "idle", text |-> "none", after |-> "none", todo |-> {},
           cache_copy |-> {}, emb_cache_copy |-> {}, ops |-> 0]
Rest(th) == [AtRest EXCEPT !.ops = th.ops]

PersistIdle ==
    /\ cache_lock = Unlocked
    /\ caches = [response |-> {}, embedding |-> {}]
    /\ files = [answer_cache |-> {}, embedding_cache |-> {}]
    /\ core_threads = [t \in CoreThreads |-> AtRest]
    /\ pending_saves = 0

\* load_persistent_caches at import: the caches are what the files hold
PersistInit ==
    /\ cache_lock = Unlocked
    /\ \E response \in SUBSET {"q1"} :
           /\ caches = [response |-> response, embedding |-> {}]
           /\ files = [answer_cache |-> response, embedding_cache |-> {}]
    /\ core_threads = [t \in CoreThreads |-> AtRest]
    /\ pending_saves = 0

PersistFrame ==
    UNCHANGED <<rerankVars, llmVars, cacheVars, retrVars, fnVars, streamVars, shardVars>>

\* a worker that may start a call
MayCall(t) == core_threads[t].pc = "idle" /\ core_threads[t].ops < MaxCoreOps

\* update_cache up to its call of save_persistent_caches
update_cache_call(t, query) ==
    /\ MayCall(t)
    /\ cache_lock = Unlocked
    /\ caches' = [caches EXCEPT !.response = @ \cup {query}]
    /\ core_threads' = [core_threads EXCEPT ![t].pc = "save", ![t].ops = @ + 1]
    /\ UNCHANGED <<cache_lock, files, pending_saves>>
    /\ PersistFrame

\* clear_cache up to its call of save_persistent_caches
clear_cache_call(t) ==
    /\ MayCall(t)
    /\ cache_lock = Unlocked
    /\ caches' = [caches EXCEPT !.response = {}]
    /\ core_threads' = [core_threads EXCEPT ![t].pc = "save", ![t].ops = @ + 1]
    /\ UNCHANGED <<cache_lock, files, pending_saves>>
    /\ PersistFrame

\* save_persistent_caches: "with cache_lock:" and the two copies
save_copy(t) ==
    /\ core_threads[t].pc = "save"
    /\ cache_lock = Unlocked
    /\ core_threads' = [core_threads EXCEPT ![t].pc = "write_cache",
                                            ![t].cache_copy = caches.response,
                                            ![t].emb_cache_copy = caches.embedding]
    /\ UNCHANGED <<cache_lock, caches, files, pending_saves>>
    /\ PersistFrame

\* save_persistent_caches: json.dump(cache_copy, f) into CACHE_FILE
save_write_cache(t) ==
    /\ core_threads[t].pc = "write_cache"
    /\ files' = [files EXCEPT !.answer_cache = core_threads[t].cache_copy]
    /\ core_threads' = [core_threads EXCEPT ![t].pc = "write_embeddings"]
    /\ UNCHANGED <<cache_lock, caches, pending_saves>>
    /\ PersistFrame

\* save_persistent_caches: json.dump(emb_cache_copy, f) into
\* EMBEDDING_CACHE_FILE, and the return
save_write_embeddings(t) ==
    /\ core_threads[t].pc = "write_embeddings"
    /\ files' = [files EXCEPT !.embedding_cache = core_threads[t].emb_cache_copy]
    /\ core_threads' = [core_threads EXCEPT ![t] = Rest(@)]
    /\ UNCHANGED <<cache_lock, caches, pending_saves>>
    /\ PersistFrame

\* threading.Thread(target=save_persistent_caches) starts running
save_thread_start ==
    /\ pending_saves > 0
    /\ core_threads[SaveThread].pc = "idle"
    /\ pending_saves' = pending_saves - 1
    /\ core_threads' = [core_threads EXCEPT ![SaveThread].pc = "save"]
    /\ UNCHANGED <<cache_lock, caches, files>>
    /\ PersistFrame

\* embed_documents returns to where it was called from
EmbedReturn(th) ==
    IF th.after = "idle" THEN Rest(th)
    ELSE [th EXCEPT !.pc = th.after, !.text = "none", !.after = "none"]

\* embed_query(text) called by a worker on its own (a search or an ingest)
embed_query_call(t, text) ==
    /\ MayCall(t)
    /\ core_threads' = [core_threads EXCEPT ![t].pc = "embed_check", ![t].text = text,
                                            ![t].after = "idle", ![t].ops = @ + 1]
    /\ UNCHANGED <<cache_lock, caches, files, pending_saves>>
    /\ PersistFrame

\* embed_documents, "1. Check Cache": "with cache_lock:" and the lookup
embed_check(t) ==
    /\ core_threads[t].pc = "embed_check"
    /\ cache_lock = Unlocked
    /\ core_threads' =
           [core_threads EXCEPT ![t] = IF @.text \in caches.embedding
                                       THEN EmbedReturn(@)
                                       ELSE [@ EXCEPT !.pc = "embed_update"]]
    /\ UNCHANGED <<cache_lock, caches, files, pending_saves>>
    /\ PersistFrame

\* embed_documents, "2." and "3. Update Cache": the embedding is computed,
\* stored under cache_lock, and the saving thread is started
embed_update(t) ==
    /\ core_threads[t].pc = "embed_update"
    /\ cache_lock = Unlocked
    /\ caches' = [caches EXCEPT !.embedding = @ \cup {core_threads[t].text}]
    /\ pending_saves' = pending_saves + 1
    /\ core_threads' = [core_threads EXCEPT ![t] = EmbedReturn(@)]
    /\ UNCHANGED <<cache_lock, files>>
    /\ PersistFrame

\* get_similar_cache_entries up to embedding_fn.embed_query(query)
similar_begin(t, query) ==
    /\ MayCall(t)
    /\ core_threads' =
           [core_threads EXCEPT ![t] = IF caches.response = {}
                                       THEN [@ EXCEPT !.ops = @ + 1]
                                       ELSE [@ EXCEPT !.pc = "embed_check",
                                                      !.text = query,
                                                      !.after = "similar_lock",
                                                      !.ops = @ + 1]]
    /\ UNCHANGED <<cache_lock, caches, files, pending_saves>>
    /\ PersistFrame

\* get_similar_cache_entries: "with cache_lock:" is entered
similar_lock(t) ==
    /\ core_threads[t].pc = "similar_lock"
    /\ cache_lock = Unlocked
    /\ cache_lock' = t
    /\ core_threads' = [core_threads EXCEPT ![t].pc = "similar_loop",
                                            ![t].todo = caches.response]
    /\ UNCHANGED <<caches, files, pending_saves>>
    /\ PersistFrame

\* get_similar_cache_entries: the loop over _response_cache.items(), each
\* pass calling embedding_fn.embed_query(cached_query); after the loop the
\* with block is left
similar_loop(t) ==
    /\ core_threads[t].pc = "similar_loop"
    /\ IF core_threads[t].todo = {}
       THEN /\ cache_lock' = Unlocked
            /\ core_threads' = [core_threads EXCEPT ![t] = Rest(@)]
       ELSE /\ \E cached_query \in core_threads[t].todo :
                   core_threads' =
                       [core_threads EXCEPT ![t].pc = "embed_check",
                                            ![t].text = cached_query,
                                            ![t].after = "similar_loop",
                                            ![t].todo = @ \ {cached_query}]
            /\ UNCHANGED cache_lock
    /\ UNCHANGED <<caches, files, pending_saves>>
    /\ PersistFrame

PersistNext ==
    \/ \E t \in Workers, query \in CoreQueries : update_cache_call(t, query)
    \/ \E t \in Workers : clear_cache_call(t)
    \/ \E t \in Workers, text \in CoreQueries : embed_query_call(t, text)
    \/ \E t \in Workers, query \in CoreQueries : similar_begin(t, query)
    \/ \E t \in CoreThreads : save_copy(t)
    \/ \E t \in CoreThreads : save_write_cache(t)
    \/ \E t \in CoreThreads : save_write_embeddings(t)
    \/ save_thread_start
    \/ \E t \in Workers : embed_check(t)
    \/ \E t \in Workers : embed_update(t)
    \/ \E t \in Workers : similar_lock(t)
    \/ \E t \in Workers : similar_loop(t)

-----------------------------------------------------------------------------
(* Specifications *)

InitRerank == RrInit /\ LlmIdle /\ CacheIdle /\ RetrIdle /\ FnIdle /\ StreamIdle /\ ShardsIdle /\ PersistIdle
SpecRerank == InitRerank /\ [][CallRerank]_vars

InitLLM == RrIdle /\ LlmIdle /\ CacheIdle /\ RetrIdle /\ FnIdle /\ StreamIdle /\ ShardsIdle /\ PersistIdle
SpecLLM == InitLLM /\ [][LlmNext]_vars

\* What the thread scheduler and the lock guarantee: a thread waiting at
\* "with llm_lock:" enters once the lock stays free, a stream that was read
\* to its end is left.  Nothing makes llm.invoke return, and nothing makes
\* the consumer of a stream ask for its next chunk.
LlmFairness ==
    \A t \in LlmThreads :
        /\ WF_vars(safe_llm_invoke_enter(t))
        /\ WF_vars(safe_llm_stream_enter(t))
        /\ WF_vars(summary_stream_enter(t))
        /\ WF_vars(LlmStreamEnd(t))
SpecLLMLive == InitLLM /\ [][LlmNext]_vars /\ LlmFairness

InitCache == RrIdle /\ LlmIdle /\ CacheIdle /\ RetrIdle /\ FnIdle /\ StreamIdle /\ ShardsIdle /\ PersistIdle
SpecCache == InitCache /\ [][CacheNext]_vars

InitRetrieve == RrIdle /\ LlmIdle /\ CacheIdle /\ RetrInit /\ FnIdle /\ StreamIdle /\ ShardsIdle /\ PersistIdle
SpecRetrieve == InitRetrieve /\ [][RetrNext]_vars

InitFunctions == RrIdle /\ LlmIdle /\ CacheIdle /\ RetrIdle /\ FnInit /\ StreamIdle /\ ShardsIdle /\ PersistIdle
SpecFunctions == InitFunctions /\ [][FnNext]_vars

InitStream == RrIdle /\ LlmIdle /\ CacheIdle /\ RetrIdle /\ FnIdle /\ StreamIdle /\ ShardsIdle /\ PersistIdle
SpecStream == InitStream /\ [][StreamNext]_vars

InitShards == RrIdle /\ LlmIdle /\ CacheIdle /\ RetrIdle /\ FnIdle /\ StreamIdle /\ ShardsIdle /\ PersistIdle
SpecShards == InitShards /\ [][ShardsNext]_vars

InitPersist == RrIdle /\ LlmIdle /\ CacheIdle /\ RetrIdle /\ FnIdle /\ StreamIdle /\ ShardsIdle /\ PersistInit
SpecPersist == InitPersist /\ [][PersistNext]_vars

-----------------------------------------------------------------------------
(* Claims *)

\* C1: once an ingestion has completed and cleared the cache, no query_docs
\* call that begins afterwards is served from the response cache an answer
\* generated from the index as it was before that ingestion.
C1_NoStaleAnswerFromCache ==
    \A t \in QueryThreads : q_pc[t] = "served_from_cache" => ~q_stale[t]

\* C2: at most one LLM invocation (blocking invoke or token stream) is in
\* progress on the shared handle at any time, over all call sites.
C2_OneLlmInvocationAtATime == Cardinality(llm_in_progress) <= 1

\* C8: when the reranker cannot be loaded or its rerank call raises,
\* rerank_results returns exactly the first top_k candidates of its input, in
\* input order and with their input scores.
C8_RerankFallback ==
    (rr_pc = "done" /\ rr_reranker.mode \in {"load_failed", "raises"}) =>
        /\ Len(rr_out) = Min(rr_top_k, Len(rr_results))
        /\ \A i \in 1..Len(rr_out) : rr_out[i] = rr_results[i]

\* C8 witness: the rerank call raised on an input with a repeated text that
\* is longer than top_k, and the call has returned.
C8_Witness ==
    /\ rr_pc = "done"
    /\ rr_reranker.mode = "raises"
    /\ Len(rr_results) > rr_top_k
    /\ rr_top_k >= 2
    /\ rr_results[1].doc.page_content = rr_results[2].doc.page_content
    /\ Len(rr_out) = rr_top_k

\* C9: rerank_results returns at most top_k candidates on every path; when
\* the reranker succeeds the result is in non-increasing order of reranker
\* score, every returned document is an input document and no two returned
\* candidates have the same text.
C9_RerankResult ==
    rr_pc = "done" =>
        /\ Len(rr_out) <= rr_top_k
        /\ rr_reranker.mode = "ok" =>
            /\ \A i \in 1..Len(rr_out) - 1 : rr_out[i].score.val >= rr_out[i + 1].score.val
            /\ \A i \in 1..Len(rr_out) :
                /\ \E j \in 1..Len(rr_results) : rr_out[i].doc = rr_results[j].doc
                /\ rr_out[i].score.val = rr_reranker.score[rr_out[i].doc.page_content]
            /\ \A i, j \in 1..Len(rr_out) :
                i # j => rr_out[i].doc.page_content # rr_out[j].doc.page_content

\* C9 witness: the reranker succeeded on an input longer than top_k that
\* holds a repeated text and texts of different scores, and top_k candidates
\* came back.
C9_Witness ==
    /\ rr_pc = "done"
    /\ rr_reranker.mode = "ok"
    /\ rr_top_k = 2
    /\ Len(rr_results) > rr_top_k
    /\ rr_results[1].doc.page_content = rr_results[2].doc.page_content
    /\ rr_reranker.score["a"] < rr_reranker.score["b"]
    /\ Len(rr_out) = 2
    /\ rr_out[1].score.val > rr_out[2].score.val

\* The four kinds of search round C4 and C5 speak of.
SearchRoundKinds == {"primary", "deepening", "expansion", "adaptive"}

\* What the round in progress has added to its list so far.
RoundContribution ==
    LET list == RoundList(round.kind)
    IN  SubSeq(list, round_base + 1, Len(list))

\* The results of the given shards for the round in progress, one after the
\* other.
ResultsOf(shards) ==
    LET RECURSIVE go(_)
        go(ss) == IF ss = <<>> THEN <<>>
                  ELSE similarity_search_with_score(store[Head(ss)], round.k,
                                                    round.filter) \o go(Tail(ss))
    IN  go(shards)

\* The retrieve_context call has returned its list to the caller.
Returned == r_pc \in {"return", "stream", "done"} /\ ~r_error

\* C3: with an empty candidate pool after all gathering strategies,
\* query_docs returns only the fixed not-found message, in the language the
\* caller asked for, and an empty sources list; no exception propagates, no
\* answer stream is started on the LLM and the response cache is not written.
C3_EmptyPoolNotFound ==
    (r_pc = "done" /\ caller = "chat" /\ all_results = <<>>) =>
        /\ out.kind = "not_found"
        /\ out.message_language = out.requested
        /\ out.sources = {}
        /\ ~r_error
        /\ answer_llm_calls = 0
        /\ ~cache_written

\* C4: in every search round (primary, deepening, expansion, adaptive) a
\* shard query that raises adds nothing and every shard query that returns
\* adds all of its results, in the order of completion, whatever shards fail;
\* when all shards fail the round adds nothing; no exception leaves a round.
C4_ShardFailureIsolation ==
    /\ ~r_error
    /\ (r_pc = "round" /\ round.kind \in SearchRoundKinds) =>
           /\ Range(round_returned) = (Shards \ pending) \ shard_down
           /\ Len(round_returned) = Cardinality((Shards \ pending) \ shard_down)
           /\ RoundContribution = ResultsOf(round_returned)
           /\ (pending = {} /\ shard_down = Shards) => RoundContribution = <<>>

\* C4 witness: an adaptive round has completed in reverse order of
\* submission with one shard raising and two shards contributing a chunk
\* each.
C4_Witness ==
    /\ r_pc = "round"
    /\ pending = {}
    /\ round.kind = "adaptive"
    /\ Cardinality(shard_down) = 1
    /\ completion_order = <<3, 2, 1>>
    /\ Len(round_returned) = 2
    /\ Len(RoundContribution) = 2

\* The adaptive phrases searched, in search or still to search.
AdaptivePhrases ==
    adaptive_rounds
        + (IF r_pc = "round" /\ round.kind = "adaptive" THEN 1 ELSE 0)
        + Len(adaptive_queries)

C6_ExactMatchRankedFirst ==
    (Returned /\ sections_hit # <<>>) =>
        /\ \E i \in 1..Len(top_results) : top_results[i].doc.page_content = ExactText
        /\ top_results[1].doc.page_content = ExactText

\* metadata['source'] of the exact-match document
IndexedDocument == "Simulated_Legal_Index"

\* C7: when the query contains a keyword of the section index, the exact
\* match is injected, the sources query_docs returns name the indexed
\* document, and no similarity search is run on any shard during the query.
C7_ExactMatchNoVectorSearch ==
    (r_pc \in {"stream", "done"} /\ caller = "chat" /\ sections_hit # <<>>) =>
        /\ \E i \in 1..Len(top_results) : top_results[i].doc = exact_doc
        /\ IndexedDocument \in out.sources
        /\ ~searched

\* C10: every score in the list retrieve_context returns is a reranker
\* relevance score, never a vector distance (injected or boosted ones
\* included), and handle_generate_summary orders relevance scores only.
C10_OnlyRelevanceScoresReturned ==
    /\ Returned =>
           \A i \in 1..Len(top_results) : top_results[i].score.scale = "relevance"
    /\ \A i \in 1..Len(sorted_contexts) :
           sorted_contexts[i].score.scale = "relevance"

\* The citations of an answer: what the three patterns extract from it.
CitationsOf(text) ==
    re_findall("Article", text) \cup re_findall("Section", text)
        \cup re_findall("Chapter", text)

\* An extracted citation of the answer that no extracted citation of the
\* context equals, case aside.
Unsupported(response, context) ==
    {c \in CitationsOf(response) :
        \A ctx \in CitationsOf(context) :
            ~(c.kind = ctx.kind /\ c.body = ctx.body)}

\* C11: verify_legal_citations returns valid=false exactly when some citation
\* extracted from the answer has no case-insensitively equal citation
\* extracted from the context, with one violation per such citation and a
\* non-empty warning; an answer without citation yields valid=true, no
\* violation and an empty warning, whatever the context.
C11_CitationVerification ==
    (fn_pc = "done" /\ fn_name = "verify_legal_citations") =>
        LET bad == Unsupported(fn_args.response, fn_args.context)
        IN  /\ fn_out.valid = (bad = {})
            /\ Len(fn_out.violations) = Cardinality(bad)
            /\ Range(fn_out.violations) = bad
            /\ (bad # {}) => fn_out.warning # ""
            /\ CitationsOf(fn_args.response) = {} =>
                   /\ fn_out.valid
                   /\ fn_out.violations = <<>>
                   /\ fn_out.warning = ""

\* C11 witness: the answer cites a section in another casing than the
\* context does and a section the context lacks; one violation is reported.
C11_Witness ==
    /\ fn_pc = "done"
    /\ fn_name = "verify_legal_citations"
    /\ fn_args.response = <<Citation("Section", "302", TRUE), Citation("Section", "304(2)", FALSE)>>
    /\ fn_args.context = <<Citation("Section", "302", FALSE), Word>>
    /\ ~fn_out.valid
    /\ Len(fn_out.violations) = 1

\* The position of the first candidate of results with the given text.
FirstIndex(results, text) ==
    CHOOSE i \in 1..Len(results) :
        /\ results[i].doc.page_content = text
        /\ \A j \in 1..(i - 1) : results[j].doc.page_content # text

C20_ChunkCountRange ==
    (fn_pc = "done" /\ fn_name = "determine_chunk_count") =>
        /\ fn_out.chunk_count \in 3..10
        /\ determine_chunk_count([fn_args.query_complexity EXCEPT !.type = "comparative"],
                                 fn_args.category_tag)
             >= determine_chunk_count([fn_args.query_complexity EXCEPT !.type = "simple"],
                                      fn_args.category_tag)

\* C20 witness: a simple query of low confidence with a category tag gets 3.
C20_Witness ==
    /\ fn_pc = "done"
    /\ fn_name = "determine_chunk_count"
    /\ fn_args.query_complexity.type = "simple"
    /\ fn_args.query_complexity.confidence <= 80
    /\ fn_args.category_tag # NoTag
    /\ fn_out.chunk_count = 3

(* C17: generate_query_expansions does not raise and returns at most three *)
(* strings: when the LLM call returned at least one non-blank line, the    *)
(* first three such lines, stripped; when it raised or returned nothing    *)
(* but blanks, the heuristic expansions.  When it returns the empty list   *)
(* retrieve_context issues no expansion search.                            *)
NonBlankLines(response) ==
    LET kept == SelectSeq(response, LAMBDA l : \E i \in 1..Len(l) : l[i] # Blank)
    IN  [i \in 1..Len(kept) |-> strip(kept[i])]

C17_ExpansionNeverRaises ==
    (fn_pc = "done" /\ fn_name = "generate_query_expansions") =>
        /\ ~fn_out.raised
        /\ Len(fn_out.expanded_queries) <= 3
        /\ (~fn_args.llm.raises /\ NonBlankLines(fn_args.llm.response) # <<>>) =>
               fn_out.expanded_queries =
                   SubSeq(NonBlankLines(fn_args.llm.response), 1, Min(3, Len(NonBlankLines(fn_args.llm.response))))
        /\ (fn_args.llm.raises \/ NonBlankLines(fn_args.llm.response) = <<>>) =>
               fn_out.expanded_queries =
                   heuristic_expansions(fn_args.query, fn_args.query_complexity)
        /\ (fn_out.expanded_queries = <<>>) => (fn_out.searches = <<>>)

\* four non-blank lines came back, one of them padded, and three were kept
C17_Witness ==
    /\ fn_pc = "done"
    /\ fn_name = "generate_query_expansions"
    /\ ~fn_args.llm.raises
    /\ Len(NonBlankLines(fn_args.llm.response)) = 4
    /\ \E i \in 1..3 : fn_args.llm.response[i] # strip(fn_args.llm.response[i])
    /\ Len(fn_out.expanded_queries) = 3

(* C18: an expansion call to the LLM that has been made ends: the thread   *)
(* that reached core.safe_llm_invoke from generate_query_expansions        *)
(* eventually leaves it, also when another request's stream holds the LLM  *)
(* without being read or the LLM does not answer.                          *)
C18_ExpansionCallEnds ==
    \A t \in LlmThreads :
        (llm_pc[t] = "called" /\ llm_site[t] = "expansion") ~> (llm_pc[t] = "idle")

(* C12: when the citation check of a completely generated answer fails,    *)
(* the caller of query_docs has received every generated chunk unchanged   *)
(* and, after them, a warning annotation.                                  *)
C12_WarningAppended ==
    \A h \in Handlers :
        (hm[h].pc = "complete" /\ hm[h].wrapped /\ hm[h].exhausted
            /\ hm[h].verification = "failed") =>
            /\ Len(hm[h].yielded) >= Len(hm[h].llm_chunks)
            /\ SubSeq(hm[h].yielded, 1, Len(hm[h].llm_chunks)) = hm[h].llm_chunks
            /\ \E i \in 1..Len(hm[h].yielded) : hm[h].yielded[i].kind = "warning"

(* C13: after stop_generation was handled while a handler's answer was     *)
(* streaming, that handler emits no response_chunk any more, whatever the  *)
(* persona and however stop_generation and send_message events interleave. *)
C13_NoChunkAfterStop == \A h \in Handlers : ~hm[h].late_chunk

(* C14: the cache entry changes only in the step in which a handler's      *)
(* response_wrapper is exhausted, and then holds the whole generated       *)
(* answer and the sources; a step in which the consumer leaves the loop    *)
(* before the stream is exhausted leaves the cache as it was.              *)
C14_CacheOnlyAfterWholeStream ==
    [][ /\ (stream_cache' # stream_cache) =>
               \E h \in Handlers :
                   /\ hm[h].pc = "streaming"
                   /\ hm[h].wrapped
                   /\ hm[h].pos = Len(hm[h].llm_chunks)
                   /\ hm'[h].exhausted
                   /\ stream_cache' = <<hm[h].llm_chunks, StreamSources>>
        /\ \A h \in Handlers :
               (hm[h].pc = "streaming" /\ hm'[h].pc = "complete" /\ ~hm'[h].exhausted) =>
                   stream_cache' = stream_cache
      ]_vars

\* one handler's English answer was interrupted after its first chunk and
\* the cache holds the whole answer of the other handler
C14_Witness ==
    \E h, g \in Handlers :
        /\ h # g
        /\ hm[h].pc = "complete" /\ hm[h].wrapped /\ hm[h].language = "en"
        /\ ~hm[h].exhausted /\ hm[h].pos = 1
        /\ hm[g].pc = "complete" /\ hm[g].exhausted /\ hm[g].wrapped
        /\ hm[g].language = "en" /\ Len(hm[g].llm_chunks) = 2
        /\ stream_cache = <<hm[g].llm_chunks, StreamSources>>

(* C15: for the same shard contents and the same behaviour of the LLM and  *)
(* the reranker, retrieve_context returns the list it returns when every   *)
(* round's shard queries complete in the order they were submitted,        *)
(* whatever the order in which they did complete, with the reranker and    *)
(* with the fallback of rerank_results.                                    *)
C15_CompletionOrderIndependent ==
    Returned => top_results = ref.top_results

(* C16: a round is submitted only when no shard query of the round before  *)
(* is pending, at most NUM_SHARDS shard queries of the call are in flight, *)
(* and a shard query of an expansion or adaptive round searches with the   *)
(* phrase of the iteration that submitted it.                              *)
C16_RoundsDoNotOverlap ==
    /\ [](shard_queries.in_flight <= NUM_SHARDS)
    /\ [](\A s \in Shards :
             (round.kind \in {"expansion", "adaptive"} /\ s \notin pending
                 /\ r_pc = "round") =>
                 /\ shard_queries.searched[s] = shard_queries.submitted[s]
                 /\ shard_queries.searched[s] = round.phrase)
    /\ [][(round' # round /\ round'.kind # "none") =>
              (pending = {} /\ shard_queries.in_flight = 0)]_vars

\* the second expansion round has been searched on every shard
C16_Witness ==
    /\ r_pc = "round"
    /\ round.kind = "expansion"
    /\ round.phrase = <<"expansion", 2>>
    /\ pending = {}
    /\ \A s \in Shards : shard_queries.searched[s] = <<"expansion", 2>>

(* C21: analyze_query_complexity returns the type and confidence of the    *)
(* first rule that matches, in the order comparative, complex, procedural, *)
(* simple, word-count fallback; the confidence lies between 0 and 0.9; and *)
(* the result is the same for every text with the same four indicator      *)
(* counts, the same word count and the same answer to whether it contains  *)
(* "compare".                                                              *)
IndicatorCounts(query) ==
    [complex |-> indicator_count(complex_indicators, query),
     procedural |-> indicator_count(procedural_indicators, query),
     comparative |-> indicator_count(comparative_indicators, query),
     simple |-> indicator_count(simple_indicators, query),
     word_count |-> query.word_count]

\* the texts of the same length made of other indicator phrases
OtherTexts(query) ==
    {q \in QueryTexts : q.word_count = query.word_count /\ q.legal_terms = <<>>}

C21_FirstMatchingRule ==
    (fn_pc = "done" /\ fn_name = "test_query") =>
        LET query == fn_args.query
            n == IndicatorCounts(query)
            r == fn_out.complexity
            is_comparative == n.comparative >= 2 \/ "compare" \in query.contains
            is_complex == n.complex >= 2 \/ n.word_count > 15
            is_procedural == n.procedural >= 1
            is_simple == n.simple >= 1 /\ n.word_count < 10
        IN  /\ r.confidence \in 0..90
            /\ is_comparative =>
                   r.type = "comparative" /\ r.confidence = Min(90, 60 + 10 * n.comparative)
            /\ ~is_comparative /\ is_complex =>
                   /\ r.type = "complex"
                   /\ r.confidence = Min(90, 50 + 10 * n.complex + 2 * (n.word_count - 10))
            /\ ~is_comparative /\ ~is_complex /\ is_procedural =>
                   r.type = "procedural" /\ r.confidence = Min(90, 60 + 15 * n.procedural)
            /\ ~is_comparative /\ ~is_complex /\ ~is_procedural /\ is_simple =>
                   r.type = "simple" /\ r.confidence = Min(90, 70 + 10 * n.simple)
            /\ ~is_comparative /\ ~is_complex /\ ~is_procedural /\ ~is_simple =>
                   /\ r.type = (IF n.word_count > 12 THEN "complex" ELSE "simple")
                   /\ r.confidence = (IF n.word_count > 12 THEN 60 ELSE 50)
            /\ \A other \in OtherTexts(query) :
                   (/\ IndicatorCounts(other) = n
                    /\ ("compare" \in other.contains) = ("compare" \in query.contains)) =>
                       /\ analyze_query_complexity(other).type = r.type
                       /\ analyze_query_complexity(other).confidence = r.confidence

\* C21 as stated: type and confidence are the same for every text with the
\* same four indicator counts and the same word count.
C21_CountsAlone ==
    (fn_pc = "done" /\ fn_name = "test_query") =>
        \A other \in OtherTexts(fn_args.query) :
            IndicatorCounts(other) = IndicatorCounts(fn_args.query) =>
                /\ analyze_query_complexity(other).type = fn_out.complexity.type
                /\ analyze_query_complexity(other).confidence = fn_out.complexity.confidence

\* C21 witness: a text with "compare" and "explain" and more than 15 words
\* matches the comparative and the complex rule and is typed comparative.
C21_Witness ==
    /\ fn_pc = "done"
    /\ fn_name = "test_query"
    /\ fn_args.query.contains = {"compare", "explain"}
    /\ fn_args.query.word_count > 15
    /\ fn_out.complexity.type = "comparative"
    /\ fn_out.complexity.confidence = 70

(* C27: the chunk count test_query gets for a query is 3 when it is typed  *)
(* simple, 6 or 7 when complex, 7 or 8 when comparative, and the count     *)
(* with a category tag is never larger than the count without one.         *)
C27_ChunksByType ==
    (fn_pc = "done" /\ fn_name = "test_query") =>
        /\ fn_out.complexity.type = "simple" => fn_out.chunks = 3
        /\ fn_out.complexity.type = "complex" => fn_out.chunks \in 6..7
        /\ fn_out.complexity.type = "comparative" => fn_out.chunks \in 7..8
        /\ determine_chunk_count(fn_out.complexity, "ipc")
             <= determine_chunk_count(fn_out.complexity, NoTag)

(* C22: check_context_relevance answers is_relevant = true when the        *)
(* context holds every keyword of the query, for each query type; it       *)
(* answers false and lists every keyword as missing when the query has     *)
(* keywords and the context holds none of them; and the keywords found     *)
(* and the keywords listed as missing partition the keywords of the query. *)
C22_RelevanceByCoverage ==
    (fn_pc = "done" /\ fn_name = "check_context_relevance") =>
        LET keywords == fn_args.query_keywords
            found == keywords \cap fn_args.in_context
            missing == {fn_out.missing_keywords[i] : i \in DOMAIN fn_out.missing_keywords}
        IN  /\ keywords \subseteq fn_args.in_context => fn_out.is_relevant
            /\ (keywords # {} /\ found = {}) =>
                   ~fn_out.is_relevant /\ missing = keywords
            /\ found \cup missing = keywords
            /\ found \cap missing = {}
            /\ Len(fn_out.missing_keywords) = Cardinality(missing)

\* C22 witness: a simple query with keywords of which the context holds
\* every one, and more besides.
C22_Witness ==
    /\ fn_pc = "done"
    /\ fn_name = "check_context_relevance"
    /\ fn_args.query_complexity.type = "simple"
    /\ Cardinality(fn_args.query_keywords) >= 2
    /\ fn_args.query_keywords \subseteq fn_args.in_context
    /\ fn_args.query_keywords # fn_args.in_context
    /\ fn_out.is_relevant
    /\ fn_out.missing_keywords = <<>>

\* C22 witness of the other case: a comparative query none of whose
\* keywords is in a non-empty context.
C22_WitnessNone ==
    /\ fn_pc = "done"
    /\ fn_name = "check_context_relevance"
    /\ fn_args.query_complexity.type = "comparative"
    /\ Cardinality(fn_args.query_keywords) >= 2
    /\ fn_args.in_context # {}
    /\ fn_args.query_keywords \cap fn_args.in_context = {}
    /\ ~fn_out.is_relevant
    /\ Len(fn_out.missing_keywords) = Cardinality(fn_args.query_keywords)

\* A step that submits a deepening round.
DeepeningStarts ==
    /\ round'.kind = "deepening"
    /\ round.kind # "deepening" \/ search_depth_level' # search_depth_level

\* A deepening round has been joined.
DeepeningJoined == r_pc = "round" /\ round.kind = "deepening" /\ pending = {}

C24_DeepeningKNotSmaller ==
    [][(DeepeningStarts /\ (r_pc = "check" => ~skip_general_search)) =>
          round'.k >= current_k]_vars

(* C25: when the primary round has returned no results, or results whose   *)
(* best distance is above 3.0, the check that follows it starts a          *)
(* deepening round, whatever else the list of results holds.               *)
PrimaryJoined == r_pc = "round" /\ round.kind = "primary" /\ pending = {}

C25_PoorPrimaryDeepens ==
    (/\ PrimaryJoined
     /\ \/ RoundContribution = <<>>
        \/ MinScore(RoundContribution) > DeepenAbove) =>
        /\ deepening_decision(all_results, skip_general_search).needs_deepening
        /\ search_depth_level < max_depth_levels

(* C26: route_query answers from the uploads database as it is on disk at  *)
(* the call; it takes the fast path, with the looked-up entry as its only  *)
(* source and without vector search or LLM call, exactly when the query    *)
(* holds a Section or Article reference whose id is a section key of some  *)
(* document; otherwise it takes the deep path, and returns the fixed       *)
(* not-found response with no sources when the deep search found nothing.  *)
HasKnownReference(file, query) ==
    \E i \in 1..Len(query), d \in 1..Len(file) : upper(query[i].id) \in file[d].sections

C26_FastPathExactly ==
    (fn_pc = "done" /\ fn_name = "route_query") =>
        /\ fn_out.path = "fast" <=> HasKnownReference(fn_args.file, fn_args.query)
        /\ fn_out.path = "fast" =>
               /\ Len(fn_out.sources) = 1
               /\ fn_out.sources[1].found
               /\ fn_out.vector_searches = 0
               /\ fn_out.llm_calls = 0
        /\ fn_out.path # "fast" =>
               /\ fn_out.path = "deep"
               /\ fn_args.context_docs = <<>> =>
                      fn_out.response = NotFoundResponse /\ fn_out.sources = <<>>

(* C28: every call of get_dbs returns a list of exactly NUM_SHARDS dbs     *)
(* with the db of shard i at index i, and the global list never holds more *)
(* than NUM_SHARDS entries, however the first callers interleave.          *)
C28_ShardListExact ==
    /\ Len(_db_shards) <= NUM_SHARDS
    /\ \A t \in ShardCallers :
           get_dbs_calls[t].pc = "returned" =>
               /\ Len(get_dbs_calls[t].dbs) = NUM_SHARDS
               /\ \A i \in 0..(NUM_SHARDS - 1) : get_dbs_calls[t].dbs[i + 1].shard = i

(* C29: when no save_persistent_caches call is running or waiting to       *)
(* start, the cache files hold what the response and embedding caches      *)
(* hold in memory.                                                         *)
NoSaveRunning ==
    /\ pending_saves = 0
    /\ \A t \in CoreThreads :
           core_threads[t].pc \notin {"save", "write_cache", "write_embeddings"}

C29_FilesEqualCaches ==
    NoSaveRunning =>
        /\ files.answer_cache = caches.response
        /\ files.embedding_cache = caches.embedding

(* C30: no thread waits at a "with cache_lock:" while it holds cache_lock  *)
(* itself.                                                                 *)
WaitsForCacheLock(t) ==
    core_threads[t].pc \in {"save", "embed_check", "embed_update", "similar_lock"}

C30_NoSelfWait ==
    \A t \in CoreThreads : ~(cache_lock = t /\ WaitsForCacheLock(t))

====
